---- MODULE Spec2Model ----
(***************************************************************************)
(* A model of the YADAGE workflow engine (yadageengine/engine.py) together *)
(* with the task manager (task.py) and the workflow repository            *)
(* (repository.py) it is composed of.  Threads call the engine's          *)
(* operations concurrently; tasks dispatched to the execution backend     *)
(* finish on their own.                                                    *)
(***************************************************************************)
EXTENDS Integers, Sequences, FiniteSets, TLC

VARIABLES
    repo,        \* workflow repository: identifier -> stored document or None
    ledger,      \* task manager collection: number of documents per (workflow, node)
    backend,     \* execution backend: status of the task of (workflow, node)
    dispatched,  \* history: how often (workflow, node) was handed to the backend
    dirs,        \* work directories that exist on the shared file system
    nextId,      \* the next fresh workflow identifier (uuid4)
    lock,        \* holder of YADAGEEngine.lock
    pc,          \* position of every thread
    loc,         \* local variables of every thread
    probe        \* input/output of a stand-alone call of get_workflow_state

vars == <<repo, ledger, backend, dispatched, dirs, nextId, lock, pc, loc, probe>>

----------------------------------------------------------------------------
\* Bounds of the model

\* number of workflow identifiers that create_workflow can hand out
MaxWorkflows == 2
\* longest list of rule or node identifiers passed in one request
MaxBatch == 2
\* cap of the per-node dispatch counter and of the ledger's duplicate count
MaxCount == 2

----------------------------------------------------------------------------
\* Constants of the program and of the workflow template

Threads == {"t1", "t2"}
NoThread == "free"

WIds == 1..MaxWorkflows

Names == {"T"}

WORKFLOW_RUNNING == "RUNNING"
WORKFLOW_WAITING == "WAITING"
WORKFLOW_FAILED == "FAILED"
WORKFLOW_SUCCESS == "SUCCESS"

\* adage.nodestate
DEFINED == "DEFINED"
RUNNING == "RUNNING"
SUCCESS == "SUCCESS"
FAILED == "FAILED"
NodeStates == {DEFINED, RUNNING, SUCCESS, FAILED}

\* The workflow template: rule r1 defines node A, rule r2 defines node B
\* downstream of A.  RX and NX are identifiers that name no rule and no node.
RuleIds == {"r1", "r2"}
NodeIds == {"A", "B"}
RX == "rx"
NX == "nx"
TemplateRules == <<"r1", "r2">>

None == [nil |-> TRUE]
AbsentNode == [present |-> FALSE, sub |-> FALSE, st |-> "-", ups |-> {}]
EmptyDag == [n \in NodeIds |-> AbsentNode]

\* All sequences over S of length at most k
RECURSIVE SeqsUpTo(_, _)
SeqsUpTo(S, k) ==
    IF k = 0 THEN {<<>>}
    ELSE LET shorter == SeqsUpTo(S, k - 1)
         IN  shorter \cup {Append(s, x) : s \in {q \in shorter : Len(q) = k - 1}, x \in S}

Range(s) == {s[i] : i \in 1..Len(s)}

\* Orders in which a set of identifiers can be enumerated
Orders(S) == {s \in SeqsUpTo(S, Cardinality(S)) : Len(s) = Cardinality(S) /\ Range(s) = S}

\* The order in which the members of S come in the enumeration perm
OrderOf(perm, S) == SelectSeq(perm, LAMBDA x : x \in S)

RuleBatches == SeqsUpTo(RuleIds \cup {RX}, MaxBatch)
NodeBatches == SeqsUpTo(NodeIds \cup {NX}, MaxBatch)

----------------------------------------------------------------------------
\* The graph engine (adage / yadage), as the engine uses it

\* dag.nodes()
Nodes(g) == {n \in NodeIds : g.dag[n].present}

\* node.state: a node that was never submitted is DEFINED, a submitted node
\* reports what the backend says about its task
NodeState(g, w, n) ==
    IF ~g.dag[n].sub THEN DEFINED ELSE backend[w][n]

\* dagstate.upstream_ok(dag, node)
upstream_ok(g, w, n) ==
    \A u \in g.dag[n].ups : NodeState(g, w, u) = SUCCESS

\* rule.applicable(workflow)
applicable(g, w, r) ==
    CASE r = "r1" -> TRUE
      [] r = "r2" -> g.dag["A"].present
      [] OTHER -> FALSE

\* The node a rule defines, and the nodes it hangs the new node under
RuleNode(r) == IF r = "r1" THEN "A" ELSE "B"
RuleUps(r) == IF r = "r1" THEN {} ELSE {"A"}

\* rule.apply(workflow): the rule's node is added in state DEFINED below those
\* of its upstream nodes that exist
apply(g, r) ==
    [g EXCEPT !.dag[RuleNode(r)] =
        [present |-> TRUE, sub |-> FALSE, st |-> DEFINED,
         ups |-> RuleUps(r) \cap Nodes(g)]]

\* adage.submit_node(node, backend), the node's side: submit_time is set
submit_node(g, n) == [g EXCEPT !.dag[n].sub = TRUE]

\* YadageWorkflow.fromJSON(workflow_json, proxy, backend)
fromJSON(doc) == [rules |-> doc.rules, applied |-> doc.applied, dag |-> doc.dag]

\* workflow.json(): the serialization records every node's state as of now
json(g, w) ==
    [rules |-> g.rules, applied |-> g.applied,
     dag |-> [n \in NodeIds |->
                IF g.dag[n].present
                THEN [g.dag[n] EXCEPT !.st = NodeState(g, w, n)]
                ELSE AbsentNode]]

----------------------------------------------------------------------------
\* Task manager (task.py)

\* node identifiers a ledger document can carry
LedgerNodes == NodeIds \cup {NX}

\* MongoDBTaskManager.has_tasks
has_tasks(led, w) == \E n \in LedgerNodes : led[w][n] > 0

\* MongoDBTaskManager.list_tasks (as the set of node identifiers listed)
list_tasks(led, w) == {n \in LedgerNodes : led[w][n] > 0}

\* MongoDBTaskManager.list_workflows
task_list_workflows(led) == {w \in WIds : has_tasks(led, w)}

\* create_task that inserts the document twice
create_task_Twice(led, w, n) == [led EXCEPT ![w][n] = @ + 2]

\* MongoDBTaskManager.create_task
create_task(led, w, n) == [led EXCEPT ![w][n] = @ + 1]

\* delete_task with delete_one: one document of the pair goes
delete_task_One(led, w, n) == [led EXCEPT ![w][n] = IF @ > 0 THEN @ - 1 ELSE 0]

\* MongoDBTaskManager.delete_task: delete_many removes every duplicate
delete_task(led, w, n) == [led EXCEPT ![w][n] = 0]

\* delete_tasks without the filter on the workflow
delete_tasks_All(led, w) == [v \in WIds |-> [n \in LedgerNodes |-> 0]]

\* delete_tasks that deletes nothing
delete_tasks_Keep(led, w) == led

\* MongoDBTaskManager.delete_tasks
delete_tasks(led, w) == [led EXCEPT ![w] = [n \in LedgerNodes |-> 0]]

\* collection.find(): one document per stored entry, duplicates included.
\* led keeps the number of documents of each pair; the documents come by
\* workflow and node (the queries below do not depend on the order).
RECURSIVE collection_find(_, _)
collection_find(led, pairs) ==
    IF pairs = <<>> THEN <<>>
    ELSE LET p == Head(pairs)
         IN  [i \in 1..led[p[1]][p[2]] |-> [workflow |-> p[1], node |-> p[2]]]
             \o collection_find(led, Tail(pairs))

\* the (workflow, node) pairs in the order collection_find goes through them
LedgerPairs ==
    LET nodes == CHOOSE s \in Orders(LedgerNodes) : TRUE
    IN  [i \in 1..(MaxWorkflows * Len(nodes)) |->
            <<((i - 1) \div Len(nodes)) + 1, nodes[((i - 1) % Len(nodes)) + 1]>>]

\* a distinct that keeps every occurrence
distinct_Keep(s) == s

\* cursor.distinct: each value once, in the order of its first occurrence
RECURSIVE distinct(_)
distinct(s) ==
    IF s = <<>> THEN <<>>
    ELSE LET front == distinct(SubSeq(s, 1, Len(s) - 1))
             x == s[Len(s)]
         IN  IF x \in Range(front) THEN front ELSE Append(front, x)

\* MongoDBTaskManager.list_tasks, as the list it returns: the node of every
\* document of the workflow
list_tasks_list(led, w) ==
    LET docs == SelectSeq(collection_find(led, LedgerPairs), LAMBDA d : d.workflow = w)
    IN  [i \in 1..Len(docs) |-> docs[i].node]

\* MongoDBTaskManager.list_workflows, as the list it returns
list_workflows_list(led) ==
    LET docs == collection_find(led, LedgerPairs)
    IN  distinct([i \in 1..Len(docs) |-> docs[i].workflow])

----------------------------------------------------------------------------
\* Workflow repository (repository.py)

\* MongoDBWorkflowRepository.get_json_from_instance
Document(name, state, wjson) ==
    [name |-> name, state |-> state,
     rules |-> wjson.rules, applied |-> wjson.applied, dag |-> wjson.dag]

\* replace_one with upsert: a document is inserted when none matches
db_update_workflow_Upsert(rp, w, name, state, wjson) ==
    [rp EXCEPT ![w] = Document(name, state, wjson)]

\* MongoDBWorkflowRepository.update_workflow: replace_one changes nothing when
\* no document matches
db_update_workflow(rp, w, name, state, wjson) ==
    IF rp[w] # None THEN [rp EXCEPT ![w] = Document(name, state, wjson)] ELSE rp

\* the instance update_workflow returns, None when nothing matched
db_update_result(rp, w, name, state, wjson) ==
    IF rp[w] # None THEN Document(name, state, wjson) ELSE None

\* insert_one that replaces a document with the same _id
db_create_workflow_Overwrite(rp, w, name, state, wjson) ==
    [repo |-> [rp EXCEPT ![w] = Document(name, state, wjson)],
     inst |-> Document(name, state, wjson), raised |-> FALSE]

\* MongoDBWorkflowRepository.create_workflow: insert_one raises
\* DuplicateKeyError when a document with the _id exists, and the collection
\* stays as it is
db_create_workflow(rp, w, name, state, wjson) ==
    IF rp[w] # None
    THEN [repo |-> rp, inst |-> None, raised |-> TRUE]
    ELSE [repo |-> [rp EXCEPT ![w] = Document(name, state, wjson)],
          inst |-> Document(name, state, wjson), raised |-> FALSE]

----------------------------------------------------------------------------
\* The web service (server.py): the parameter of the workflow template

\* what a request gives for the template's parameter of type int, and what
\* the template gives as its default; "absent" when nothing is given
ParaInputs == {"absent", "7", "x"}
ParaDefaults == {"absent", "3"}

\* int(para_value): the strings that denote an integer, and the integer
IsIntString(v) == v \in {"7", "3"}
IntOf(v) == IF v = "7" THEN 7 ELSE 3

\* init_data that takes every value as it comes
init_data_NoCheck(req, def) ==
    [status |-> "ok", value |-> IF IsIntString(req) THEN IntOf(req) ELSE 0]

\* server.create_workflow, lines 223-247: the value of the parameter is the
\* one of the request, else the default, else the request is aborted with
\* 400; int() of a string that is no integer raises ValueError (500)
init_data(req, def) ==
    LET v == IF req # "absent" THEN req ELSE def
    IN  IF v = "absent" THEN [status |-> "400", value |-> 0]
        ELSE IF ~IsIntString(v) THEN [status |-> "500", value |-> 0]
        ELSE [status |-> "ok", value |-> IntOf(v)]

----------------------------------------------------------------------------
\* The engine (engine.py): functions

\* The loop of get_workflow_state over dag.nodes(), with its break
RECURSIVE StateLoop(_, _, _)
StateLoop(sts, order, state) ==
    IF order = <<>> THEN state
    ELSE LET s == sts[Head(order)]
         IN  IF s = FAILED THEN WORKFLOW_FAILED
             ELSE LET s1 == IF s = RUNNING THEN WORKFLOW_RUNNING ELSE state
                      s2 == IF s = DEFINED /\ s1 # WORKFLOW_FAILED /\ s1 # WORKFLOW_RUNNING
                            THEN WORKFLOW_WAITING ELSE s1
                  IN  StateLoop(sts, Tail(order), s2)

\* get_workflow_state that ignores nodes in state DEFINED
get_workflow_state_NoDefined(rules, sts, order) ==
    LET start == IF Len(rules) > 0 THEN WORKFLOW_WAITING ELSE WORKFLOW_SUCCESS
    IN  IF \E n \in DOMAIN sts : sts[n] = FAILED THEN WORKFLOW_FAILED
        ELSE IF \E n \in DOMAIN sts : sts[n] = RUNNING THEN WORKFLOW_RUNNING
        ELSE start

\* get_workflow_state whose loop goes on after a FAILED node
RECURSIVE StateLoop_NoBreak(_, _, _)
StateLoop_NoBreak(sts, order, state) ==
    IF order = <<>> THEN state
    ELSE LET s == sts[Head(order)]
             s1 == IF s = FAILED THEN WORKFLOW_FAILED
                   ELSE IF s = RUNNING THEN WORKFLOW_RUNNING ELSE state
             s2 == IF s = DEFINED /\ s1 # WORKFLOW_FAILED /\ s1 # WORKFLOW_RUNNING
                   THEN WORKFLOW_WAITING ELSE s1
         IN  StateLoop_NoBreak(sts, Tail(order), s2)

get_workflow_state_NoBreak(rules, sts, order) ==
    StateLoop_NoBreak(sts, order,
                      IF Len(rules) > 0 THEN WORKFLOW_WAITING ELSE WORKFLOW_SUCCESS)

\* YADAGEEngine.get_workflow_state: rules are the pending rules, sts the state
\* of every node, order the order in which dag.nodes() lists the nodes
get_workflow_state(rules, sts, order) ==
    StateLoop(sts, order,
              IF Len(rules) > 0 THEN WORKFLOW_WAITING ELSE WORKFLOW_SUCCESS)

\* the node states of a loaded workflow, as get_workflow_state reads them
LiveStates(g, w) == [n \in Nodes(g) |-> NodeState(g, w, n)]

\* submittable_nodes that lists nothing once a node has failed
submittable_nodes_NoneFailed(g, w, led, nperm) ==
    SelectSeq(OrderOf(nperm, Nodes(g)),
              LAMBDA n : /\ n \notin list_tasks(led, w)
                         /\ ~g.dag[n].sub
                         /\ upstream_ok(g, w, n)
                         /\ \A m \in Nodes(g) : NodeState(g, w, m) # FAILED)

\* submittable_nodes without the test of submit_time
submittable_nodes_NoSubmitTime(g, w, led, nperm) ==
    SelectSeq(OrderOf(nperm, Nodes(g)),
              LAMBDA n : /\ n \notin list_tasks(led, w)
                         /\ upstream_ok(g, w, n))

\* YADAGEEngine.submittable_nodes: the identifiers, in the order of dag.nodes()
submittable_nodes(g, w, led, nperm) ==
    SelectSeq(OrderOf(nperm, Nodes(g)),
              LAMBDA n : /\ n \notin list_tasks(led, w)
                         /\ ~g.dag[n].sub
                         /\ upstream_ok(g, w, n))

\* the loop of update_workflow_state without has_changes = True
RECURSIVE TaskLoop_NoChange(_, _, _, _, _)
TaskLoop_NoChange(g, w, tasks, led, changed) ==
    IF tasks = <<>> THEN [ledger |-> led, changed |-> changed, raised |-> FALSE]
    ELSE LET n == Head(tasks)
         IN  IF n \in Nodes(g)
             THEN IF NodeState(g, w, n) \in {SUCCESS, FAILED}
                  THEN TaskLoop_NoChange(g, w, Tail(tasks), delete_task(led, w, n), changed)
                  ELSE TaskLoop_NoChange(g, w, Tail(tasks), led, changed)
             ELSE [ledger |-> led, changed |-> changed, raised |-> TRUE]

\* the loop of update_workflow_state that deletes the entry of every node of
\* the graph, finished or not
RECURSIVE TaskLoop_DeleteAll(_, _, _, _, _)
TaskLoop_DeleteAll(g, w, tasks, led, changed) ==
    IF tasks = <<>> THEN [ledger |-> led, changed |-> changed, raised |-> FALSE]
    ELSE LET n == Head(tasks)
         IN  IF n \in Nodes(g)
             THEN TaskLoop_DeleteAll(g, w, Tail(tasks), delete_task(led, w, n), TRUE)
             ELSE [ledger |-> led, changed |-> changed, raised |-> TRUE]

\* The loop of update_workflow_state over the workflow's ledger entries.  The
\* branch for an entry without a node refers to the undefined name db and
\* raises NameError.
RECURSIVE TaskLoop(_, _, _, _, _)
TaskLoop(g, w, tasks, led, changed) ==
    IF tasks = <<>> THEN [ledger |-> led, changed |-> changed, raised |-> FALSE]
    ELSE LET n == Head(tasks)
         IN  IF n \in Nodes(g)
             THEN IF NodeState(g, w, n) \in {SUCCESS, FAILED}
                  THEN TaskLoop(g, w, Tail(tasks), delete_task(led, w, n), TRUE)
                  ELSE TaskLoop(g, w, Tail(tasks), led, changed)
             ELSE [ledger |-> led, changed |-> changed, raised |-> TRUE]

\* update_workflow_state that stores the workflow whether or not a task has
\* finished
update_workflow_state_AlwaysWrite(g, inst, w, rp, led, tperm, nperm) ==
    LET r == TaskLoop(g, w, OrderOf(tperm, list_tasks(led, w)), led, FALSE)
        state == get_workflow_state(g.rules, LiveStates(g, w), OrderOf(nperm, Nodes(g)))
    IN  IF r.raised
        THEN [g |-> g, inst |-> inst, repo |-> rp, ledger |-> r.ledger, raised |-> TRUE,
              wrote |-> FALSE]
        ELSE [g |-> g,
              inst |-> db_update_result(rp, w, inst.name, state, json(g, w)),
              repo |-> db_update_workflow(rp, w, inst.name, state, json(g, w)),
              ledger |-> r.ledger, raised |-> FALSE, wrote |-> TRUE]

\* YADAGEEngine.update_workflow_state; wrote tells whether db.update_workflow
\* was called
update_workflow_state(g, inst, w, rp, led, tperm, nperm) ==
    LET r == TaskLoop(g, w, OrderOf(tperm, list_tasks(led, w)), led, FALSE)
        state == get_workflow_state(g.rules, LiveStates(g, w), OrderOf(nperm, Nodes(g)))
    IN  IF r.raised
        THEN [g |-> g, inst |-> inst, repo |-> rp, ledger |-> r.ledger, raised |-> TRUE,
              wrote |-> FALSE]
        ELSE IF r.changed
        THEN [g |-> g,
              inst |-> db_update_result(rp, w, inst.name, state, json(g, w)),
              repo |-> db_update_workflow(rp, w, inst.name, state, json(g, w)),
              ledger |-> r.ledger, raised |-> FALSE, wrote |-> TRUE]
        ELSE [g |-> g, inst |-> inst, repo |-> rp, ledger |-> r.ledger, raised |-> FALSE,
              wrote |-> FALSE]

\* YADAGEEngine.get_workflow_objects
get_workflow_objects(rp, w) ==
    IF rp[w] # None THEN [g |-> fromJSON(rp[w]), inst |-> rp[w]]
    ELSE [g |-> None, inst |-> None]

\* get_current_workflow_objects that clears the ledger entries of a workflow
\* it cannot load
get_current_workflow_objects_Purge(w, rp, led, tperm, nperm) ==
    LET o == get_workflow_objects(rp, w)
    IN  IF o.inst = None
        THEN [g |-> None, inst |-> None, repo |-> rp, ledger |-> delete_tasks(led, w),
              raised |-> FALSE, wrote |-> FALSE]
        ELSE IF has_tasks(led, w)
        THEN update_workflow_state(o.g, o.inst, w, rp, led, tperm, nperm)
        ELSE [g |-> o.g, inst |-> o.inst, repo |-> rp, ledger |-> led, raised |-> FALSE,
              wrote |-> FALSE]

\* YADAGEEngine.get_current_workflow_objects
get_current_workflow_objects(w, rp, led, tperm, nperm) ==
    LET o == get_workflow_objects(rp, w)
    IN  IF o.inst = None
        THEN [g |-> None, inst |-> None, repo |-> rp, ledger |-> led, raised |-> FALSE,
              wrote |-> FALSE]
        ELSE IF has_tasks(led, w)
        THEN update_workflow_state(o.g, o.inst, w, rp, led, tperm, nperm)
        ELSE [g |-> o.g, inst |-> o.inst, repo |-> rp, ledger |-> led, raised |-> FALSE,
              wrote |-> FALSE]

\* the loop of apply_rules without del yadage_workflow.rules[rule_index]
RECURSIVE RuleLoop_KeepPending(_, _, _, _)
RuleLoop_KeepPending(g, w, batch, onfail) ==
    IF batch = <<>> THEN [g |-> g, rv |-> "True"]
    ELSE LET r == Head(batch)
         IN  IF r \notin Range(g.rules) THEN [g |-> g, rv |-> "False"]
             ELSE IF ~applicable(g, w, r) /\ onfail = "raise"
             THEN [g |-> g, rv |-> "raise"]
             ELSE RuleLoop_KeepPending(
                    [apply(g, r) EXCEPT !.applied = Append(g.applied, r)],
                    w, Tail(batch), onfail)

\* the loop of apply_rules that puts an applied rule at the front of the log
RECURSIVE RuleLoop_Prepend(_, _, _, _)
RuleLoop_Prepend(g, w, batch, onfail) ==
    IF batch = <<>> THEN [g |-> g, rv |-> "True"]
    ELSE LET r == Head(batch)
         IN  IF r \notin Range(g.rules) THEN [g |-> g, rv |-> "False"]
             ELSE IF ~applicable(g, w, r) /\ onfail = "raise"
             THEN [g |-> g, rv |-> "raise"]
             ELSE RuleLoop_Prepend(
                    [apply(g, r) EXCEPT
                        !.rules = SelectSeq(g.rules, LAMBDA x : x # r),
                        !.applied = <<r>> \o g.applied],
                    w, Tail(batch), onfail)

\* The loop of apply_rules over the requested rule identifiers.  A rule is
\* looked up among the pending rules by identifier only; onfail is what
\* rule.apply does when the rule is not applicable: "ok" or "raise".
RECURSIVE RuleLoop(_, _, _, _)
RuleLoop(g, w, batch, onfail) ==
    IF batch = <<>> THEN [g |-> g, rv |-> "True"]
    ELSE LET r == Head(batch)
         IN  IF r \notin Range(g.rules) THEN [g |-> g, rv |-> "False"]
             ELSE IF ~applicable(g, w, r) /\ onfail = "raise"
             THEN [g |-> g, rv |-> "raise"]
             ELSE RuleLoop(
                    [apply(g, r) EXCEPT
                        !.rules = SelectSeq(g.rules, LAMBDA x : x # r),
                        !.applied = Append(g.applied, r)],
                    w, Tail(batch), onfail)

----------------------------------------------------------------------------
\* Threads

\* the locals of a thread that is not inside an operation
NoLocal ==
    [op |-> "none", wid |-> 0, batch |-> <<>>, g |-> None, inst |-> None,
     todo |-> <<>>, res |-> None, pre |-> None, mid |-> None, wrote |-> {}]

\* the locals of a thread that enters operation op on workflow w
Enter(op, w, batch) == [NoLocal EXCEPT !.op = op, !.wid = w, !.batch = batch]

\* what the stores hold about workflow w
Seen(rp, led, w) == [doc |-> rp[w], led |-> led[w], disp |-> dispatched[w]]

\* an instance that starts with the first rule in the log of applied rules
NewWorkflow_Applied == [rules |-> <<"r2">>, applied |-> <<"r1">>, dag |-> EmptyDag]

\* the workflow a fresh instance of the template starts from
NewWorkflow == [rules |-> TemplateRules, applied |-> <<>>, dag |-> EmptyDag]

\* The engine starts on empty stores.  Every identifier below MaxWorkflows
\* has been handed out before and its workflow deleted again, so that one
\* more workflow can be created; the used identifiers are the unknown ones.

\* a lock that never blocks
CanAcquire_NoLock == TRUE

\* with self.lock: the lock is taken when no thread holds it
CanAcquire == lock = NoThread

\* A thread at "done" has just finished an operation and hands the result to
\* its caller.  That touches nothing shared, so it is scheduled first: every
\* other step waits until no thread is at "done".  A thread at "done"
\* therefore sees the stores exactly as its operation left them.
Quiet == \A t \in Threads : pc[t] # "done"

Init ==
    /\ repo = [w \in WIds |-> None]
    /\ ledger = [w \in WIds |-> [n \in LedgerNodes |-> 0]]
    /\ backend = [w \in WIds |-> [n \in NodeIds |-> "none"]]
    /\ dispatched = [w \in WIds |-> [n \in NodeIds |-> 0]]
    /\ dirs = {}
    /\ nextId = MaxWorkflows
    /\ lock = NoThread
    /\ pc = [t \in Threads |-> "idle"]
    /\ loc = [t \in Threads |-> NoLocal]
    /\ probe = None

\* server.create_workflow and YADAGEEngine.create_workflow: the request is
\* turned down before the engine is called when the parameter has no value
\* or no integer value; else the engine makes the work directory and stores
\* the workflow.  No lock is taken.
CreateWorkflow(t) ==
    /\ Quiet
    /\ pc[t] = "idle"
    /\ nextId <= MaxWorkflows
    /\ \E name \in Names, req \in ParaInputs, def \in ParaDefaults :
         LET d == init_data(req, def)
             R == db_create_workflow(repo, nextId, name, WORKFLOW_WAITING,
                                     json(NewWorkflow, nextId))
             l == [Enter("create_workflow", nextId, <<>>) EXCEPT !.batch = <<name, req, def>>]
         IN  IF d.status # "ok"
             THEN /\ loc' = [loc EXCEPT ![t] =
                               [l EXCEPT !.res = [rv |-> d.status, found |-> FALSE]]]
                  /\ UNCHANGED <<dirs, repo, nextId>>
             ELSE /\ dirs' = dirs \cup {nextId}
                  /\ repo' = R.repo
                  /\ nextId' = nextId + 1
                  /\ loc' = [loc EXCEPT ![t] =
                               [l EXCEPT !.res =
                                   IF R.raised
                                   THEN [rv |-> "raise", found |-> FALSE]
                                   ELSE [rv |-> "created", found |-> TRUE,
                                         inst |-> R.inst, init |-> d.value]]]
    /\ pc' = [pc EXCEPT ![t] = "done"]
    /\ UNCHANGED <<ledger, backend, dispatched, lock, probe>>

\* The locked start shared by apply_rules, submit_nodes and get_workflow: take
\* the lock and call get_current_workflow_objects.  An exception leaves the
\* with-block, which releases the lock.
Begin(t, op, w, next) ==
    /\ Quiet
    /\ pc[t] = "idle"
    /\ CanAcquire
    /\ \E tperm \in Orders(LedgerNodes), nperm \in Orders(NodeIds) :
         LET R == get_current_workflow_objects(w, repo, ledger, tperm, nperm)
             l == [Enter(op, w, <<>>) EXCEPT
                      !.g = R.g, !.inst = R.inst,
                      !.pre = Seen(repo, ledger, w),
                      !.mid = Seen(R.repo, R.ledger, w),
                      !.wrote = IF R.wrote THEN {w} ELSE {}]
         IN  /\ repo' = R.repo
             /\ ledger' = R.ledger
             /\ IF R.raised
                THEN /\ lock' = lock
                     /\ pc' = [pc EXCEPT ![t] = "done"]
                     /\ loc' = [loc EXCEPT ![t] = [l EXCEPT !.res = [rv |-> "raise", found |-> TRUE]]]
                ELSE /\ lock' = t
                     /\ pc' = [pc EXCEPT ![t] = next]
                     /\ loc' = [loc EXCEPT ![t] = l]
    /\ UNCHANGED <<backend, dispatched, dirs, nextId, probe>>

\* YADAGEEngine.apply_rules, lines 83-86
ArBegin(t) ==
    \E w \in WIds : Begin(t, "apply_rules", w, "ar_main")

\* YADAGEEngine.apply_rules, lines 87-118; rule_instances is batch
ArMain(t) ==
    /\ Quiet
    /\ pc[t] = "ar_main"
    /\ \E batch \in RuleBatches :
       LET l == loc[t]
           w == l.wid
       IN  IF l.inst = None
           THEN /\ loc' = [loc EXCEPT ![t].res = [rv |-> "False", found |-> FALSE],
                                     ![t].batch = batch]
                /\ repo' = repo
           ELSE \E onfail \in {"ok", "raise"} :
                  LET r == RuleLoop(l.g, w, batch, onfail)
                  IN  /\ loc' = [loc EXCEPT ![t].res = [rv |-> r.rv, found |-> TRUE],
                                            ![t].g = r.g, ![t].batch = batch]
                      /\ repo' = IF r.rv = "True"
                                 THEN db_update_workflow(repo, w, l.inst.name,
                                                         l.inst.state, json(r.g, w))
                                 ELSE repo
    /\ lock' = NoThread
    /\ pc' = [pc EXCEPT ![t] = "done"]
    /\ UNCHANGED <<ledger, backend, dispatched, dirs, nextId, probe>>

\* YADAGEEngine.submit_nodes, lines 363-366
SnBegin(t) ==
    \E w \in WIds : Begin(t, "submit_nodes", w, "sn_main")

\* submit_nodes, lines 370-373: the submittable nodes that were requested
requested(subm, batch) == SelectSeq(subm, LAMBDA n : n \in Range(batch))

\* a test that turns a request down only when none of its nodes was found
accepted_AnyFound(nodes, batch) == Len(nodes) > 0 \/ Len(batch) = 0

\* submit_nodes, line 375: the request is accepted when as many nodes were
\* found as identifiers were given
accepted(nodes, batch) == Len(nodes) = Len(batch)

\* YADAGEEngine.submit_nodes, lines 367-376; node_ids is batch
SnValidate(t) ==
    /\ Quiet
    /\ pc[t] = "sn_main"
    /\ \E batch \in NodeBatches, nperm \in Orders(NodeIds) :
       LET l == loc[t]
           w == l.wid
       IN  IF l.inst = None
           THEN /\ loc' = [loc EXCEPT ![t].res = [rv |-> "False", found |-> FALSE],
                                     ![t].batch = batch]
                /\ pc' = [pc EXCEPT ![t] = "done"]
                /\ lock' = NoThread
           ELSE LET nodes == requested(submittable_nodes(l.g, w, ledger, nperm), batch)
                IN  IF ~accepted(nodes, batch)
                    THEN /\ loc' = [loc EXCEPT ![t].res = [rv |-> "False", found |-> TRUE],
                                              ![t].batch = batch]
                         /\ pc' = [pc EXCEPT ![t] = "done"]
                         /\ lock' = NoThread
                    ELSE /\ loc' = [loc EXCEPT ![t].todo = nodes, ![t].batch = batch]
                         /\ pc' = [pc EXCEPT ![t] =
                                     IF nodes = <<>> THEN "sn_persist" ELSE "sn_dispatch"]
                         /\ lock' = lock
    /\ UNCHANGED <<repo, ledger, backend, dispatched, dirs, nextId, probe>>

\* submit_nodes, line 380: adage.submit_node hands the node to the backend
\* and sets its submit_time
SnDispatch(t) ==
    /\ Quiet
    /\ pc[t] = "sn_dispatch"
    /\ LET w == loc[t].wid
           n == Head(loc[t].todo)
       IN  /\ dispatched[w][n] < MaxCount
           /\ backend' = [backend EXCEPT ![w][n] = RUNNING]
           /\ dispatched' = [dispatched EXCEPT ![w][n] = @ + 1]
           /\ loc' = [loc EXCEPT ![t].g = submit_node(@, n)]
    /\ pc' = [pc EXCEPT ![t] = "sn_ledger"]
    /\ UNCHANGED <<repo, ledger, dirs, nextId, lock, probe>>

\* submit_nodes, line 381: the ledger entry is inserted
SnLedger(t) ==
    /\ Quiet
    /\ pc[t] = "sn_ledger"
    /\ LET w == loc[t].wid
           n == Head(loc[t].todo)
       IN  /\ ledger[w][n] < MaxCount
           /\ ledger' = create_task(ledger, w, n)
           /\ loc' = [loc EXCEPT ![t].todo = Tail(@)]
           /\ pc' = [pc EXCEPT ![t] =
                       IF Tail(loc[t].todo) = <<>> THEN "sn_persist" ELSE "sn_dispatch"]
    /\ UNCHANGED <<repo, backend, dispatched, dirs, nextId, lock, probe>>

\* submit_nodes, lines 383-390
SnPersist(t) ==
    /\ Quiet
    /\ pc[t] = "sn_persist"
    /\ \E nperm \in Orders(NodeIds) :
       LET l == loc[t]
           w == l.wid
           state == get_workflow_state(l.g.rules, LiveStates(l.g, w),
                                       OrderOf(nperm, Nodes(l.g)))
       IN  /\ repo' = db_update_workflow(repo, w, l.inst.name, state, json(l.g, w))
           /\ loc' = [loc EXCEPT ![t].res = [rv |-> "True", found |-> TRUE]]
    /\ lock' = NoThread
    /\ pc' = [pc EXCEPT ![t] = "done"]
    /\ UNCHANGED <<ledger, backend, dispatched, dirs, nextId, probe>>

\* YADAGEEngine.get_workflow, lines 239-242
GwBegin(t) ==
    \E w \in WIds : Begin(t, "get_workflow", w, "gw_locked")

\* get_workflow, lines 243-244: the with-block ends
GwRelease(t) ==
    /\ Quiet
    /\ pc[t] = "gw_locked"
    /\ lock' = NoThread
    /\ IF loc[t].inst = None
       THEN /\ loc' = [loc EXCEPT ![t].res = [rv |-> "None", found |-> FALSE]]
            /\ pc' = [pc EXCEPT ![t] = "done"]
       ELSE /\ loc' = loc
            /\ pc' = [pc EXCEPT ![t] = "gw_unlocked"]
    /\ UNCHANGED <<repo, ledger, backend, dispatched, dirs, nextId, probe>>

\* get_workflow, lines 246-249: the pending rules in reverse order that are
\* applicable
applicable_rules(g, w) ==
    LET rev == [i \in 1..Len(g.rules) |-> g.rules[Len(g.rules) + 1 - i]]
    IN  SelectSeq(rev, LAMBDA r : applicable(g, w, r))

\* YADAGEEngine.get_workflow, lines 245-266: computed without the lock
GwFinish(t) ==
    /\ Quiet
    /\ pc[t] = "gw_unlocked"
    /\ \E nperm \in Orders(NodeIds) :
       LET l == loc[t]
           w == l.wid
       IN  loc' = [loc EXCEPT ![t].res =
                     [rv |-> "instance", found |-> TRUE,
                      name |-> l.inst.name,
                      state |-> l.inst.state,
                      applied |-> l.inst.applied,
                      dag |-> l.inst.dag,
                      applicable |-> applicable_rules(l.g, w),
                      submittable |-> submittable_nodes(l.g, w, ledger, nperm)]]
    /\ pc' = [pc EXCEPT ![t] = "done"]
    /\ UNCHANGED <<repo, ledger, backend, dispatched, dirs, nextId, lock, probe>>

\* delete_workflow that starts with shutil.rmtree and leaves the document for
\* later
DwBegin_DirFirst(t) ==
    /\ Quiet
    /\ pc[t] = "idle"
    /\ CanAcquire
    /\ \E w \in WIds :
         LET l == [Enter("delete_workflow", w, <<>>) EXCEPT
                      !.pre = Seen(repo, ledger, w)]
         IN  IF repo[w] # None
             THEN /\ dirs' = dirs \ {w}
                  /\ lock' = t
                  /\ loc' = [loc EXCEPT ![t] = l]
                  /\ pc' = [pc EXCEPT ![t] = "dw_tasks"]
             ELSE /\ dirs' = dirs
                  /\ lock' = lock
                  /\ loc' = [loc EXCEPT ![t] =
                               [l EXCEPT !.res = [rv |-> "False", found |-> FALSE]]]
                  /\ pc' = [pc EXCEPT ![t] = "done"]
    /\ UNCHANGED <<repo, ledger, backend, dispatched, nextId, probe>>

\* delete_workflow that does not look at the result of db.delete_workflow
DwBegin_AlwaysTrue(t) ==
    /\ Quiet
    /\ pc[t] = "idle"
    /\ CanAcquire
    /\ \E w \in WIds :
         /\ repo' = [repo EXCEPT ![w] = None]
         /\ lock' = t
         /\ loc' = [loc EXCEPT ![t] =
                      [Enter("delete_workflow", w, <<>>) EXCEPT
                          !.pre = Seen(repo, ledger, w)]]
         /\ pc' = [pc EXCEPT ![t] = "dw_tasks"]
    /\ UNCHANGED <<ledger, backend, dispatched, dirs, nextId, probe>>

\* YADAGEEngine.delete_workflow, lines 182-183 and 190-191
DwBegin(t) ==
    /\ Quiet
    /\ pc[t] = "idle"
    /\ CanAcquire
    /\ \E w \in WIds :
         LET l == [Enter("delete_workflow", w, <<>>) EXCEPT
                      !.pre = Seen(repo, ledger, w)]
         IN  IF repo[w] # None
             THEN /\ repo' = [repo EXCEPT ![w] = None]
                  /\ lock' = t
                  /\ loc' = [loc EXCEPT ![t] = l]
                  /\ pc' = [pc EXCEPT ![t] = "dw_tasks"]
             ELSE /\ repo' = repo
                  /\ lock' = lock
                  /\ loc' = [loc EXCEPT ![t] =
                               [l EXCEPT !.res = [rv |-> "False", found |-> FALSE]]]
                  /\ pc' = [pc EXCEPT ![t] = "done"]
    /\ UNCHANGED <<ledger, backend, dispatched, dirs, nextId, probe>>

\* delete_workflow, line 185
DwTasks(t) ==
    /\ Quiet
    /\ pc[t] = "dw_tasks"
    /\ ledger' = delete_tasks(ledger, loc[t].wid)
    /\ pc' = [pc EXCEPT ![t] = "dw_dir"]
    /\ UNCHANGED <<repo, backend, dispatched, dirs, nextId, lock, loc, probe>>

\* delete_workflow, lines 187-189
DwDir(t) ==
    /\ Quiet
    /\ pc[t] = "dw_dir"
    /\ dirs' = dirs \ {loc[t].wid}
    /\ lock' = NoThread
    /\ loc' = [loc EXCEPT ![t].res = [rv |-> "True", found |-> TRUE]]
    /\ pc' = [pc EXCEPT ![t] = "done"]
    /\ UNCHANGED <<repo, ledger, backend, dispatched, nextId, probe>>

\* The loop of list_workflows over task_manager.list_workflows()
RECURSIVE ScanLoop(_, _, _, _, _, _)
ScanLoop(ws, rp, led, tperm, nperm, wrote) ==
    IF ws = <<>> THEN [repo |-> rp, ledger |-> led, raised |-> FALSE, wrote |-> wrote]
    ELSE LET w == Head(ws)
             o == get_workflow_objects(rp, w)
         IN  IF o.inst # None
             THEN LET R == update_workflow_state(o.g, o.inst, w, rp, led, tperm, nperm)
                  IN  IF R.raised
                      THEN [repo |-> R.repo, ledger |-> R.ledger, raised |-> TRUE,
                            wrote |-> wrote]
                      ELSE ScanLoop(Tail(ws), R.repo, R.ledger, tperm, nperm,
                                    IF R.wrote THEN wrote \cup {w} ELSE wrote)
             ELSE ScanLoop(Tail(ws), rp, delete_tasks(led, w), tperm, nperm, wrote)

\* YADAGEEngine.list_workflows, lines 339-346
LwScan(t) ==
    /\ Quiet
    /\ pc[t] = "idle"
    /\ CanAcquire
    /\ \E wperm \in Orders(WIds), tperm \in Orders(LedgerNodes), nperm \in Orders(NodeIds) :
         LET R == ScanLoop(OrderOf(wperm, task_list_workflows(ledger)),
                           repo, ledger, tperm, nperm, {})
             l == [Enter("list_workflows", 0, <<>>) EXCEPT !.wrote = R.wrote]
         IN  /\ repo' = R.repo
             /\ ledger' = R.ledger
             /\ IF R.raised
                THEN /\ lock' = lock
                     /\ pc' = [pc EXCEPT ![t] = "done"]
                     /\ loc' = [loc EXCEPT ![t] =
                                  [l EXCEPT !.res = [rv |-> "raise", found |-> TRUE]]]
                ELSE /\ lock' = t
                     /\ pc' = [pc EXCEPT ![t] = "lw_locked"]
                     /\ loc' = [loc EXCEPT ![t] = l]
    /\ UNCHANGED <<backend, dispatched, dirs, nextId, probe>>

\* list_workflows: the with-block ends
LwRelease(t) ==
    /\ Quiet
    /\ pc[t] = "lw_locked"
    /\ lock' = NoThread
    /\ pc' = [pc EXCEPT ![t] = "lw_unlocked"]
    /\ UNCHANGED <<repo, ledger, backend, dispatched, dirs, nextId, loc, probe>>

\* MongoDBWorkflowRepository.list_workflows without a filter
db_list_workflows(rp) == [w \in {x \in WIds : rp[x] # None} |-> rp[w].state]

\* list_workflows, line 347: the listing is read without the lock
LwFinish(t) ==
    /\ Quiet
    /\ pc[t] = "lw_unlocked"
    /\ loc' = [loc EXCEPT ![t].res = [rv |-> "list", found |-> TRUE,
                                        listing |-> db_list_workflows(repo)]]
    /\ pc' = [pc EXCEPT ![t] = "done"]
    /\ UNCHANGED <<repo, ledger, backend, dispatched, dirs, nextId, lock, probe>>

\* the caller takes the result; the thread is free for the next request
Return(t) ==
    /\ pc[t] = "done"
    /\ pc' = [pc EXCEPT ![t] = "idle"]
    /\ loc' = [loc EXCEPT ![t] = NoLocal]
    /\ UNCHANGED <<repo, ledger, backend, dispatched, dirs, nextId, lock, probe>>

\* The execution backend finishes a task
TaskCompletes ==
    /\ Quiet
    /\ \E w \in WIds, n \in NodeIds, outcome \in {SUCCESS, FAILED} :
         /\ backend[w][n] = RUNNING
         /\ backend' = [backend EXCEPT ![w][n] = outcome]
    /\ UNCHANGED <<repo, ledger, dispatched, dirs, nextId, lock, pc, loc, probe>>

Next ==
    \/ \E t \in Threads : CreateWorkflow(t)
    \/ \E t \in Threads : ArBegin(t)
    \/ \E t \in Threads : ArMain(t)
    \/ \E t \in Threads : SnBegin(t)
    \/ \E t \in Threads : SnValidate(t)
    \/ \E t \in Threads : SnDispatch(t)
    \/ \E t \in Threads : SnLedger(t)
    \/ \E t \in Threads : SnPersist(t)
    \/ \E t \in Threads : GwBegin(t)
    \/ \E t \in Threads : GwRelease(t)
    \/ \E t \in Threads : GwFinish(t)
    \/ \E t \in Threads : DwBegin(t)
    \/ \E t \in Threads : DwTasks(t)
    \/ \E t \in Threads : DwDir(t)
    \/ \E t \in Threads : LwScan(t)
    \/ \E t \in Threads : LwRelease(t)
    \/ \E t \in Threads : LwFinish(t)
    \/ \E t \in Threads : Return(t)
    \/ TaskCompletes

Spec == Init /\ [][Next]_vars

----------------------------------------------------------------------------
\* One caller at a time, on a task collection that other clients write too

\* the thread that serves the requests
Caller == "t1"

\* Another client of the task collection inserts a document with
\* MongoDBTaskManager.create_task (as tests/test_task_manager.py does): an
\* entry whose node identifier no graph has, for a workflow that exists or
\* for one the repository does not have.
StrayTask ==
    /\ Quiet
    /\ \E w \in WIds :
         /\ ledger[w][NX] = 0
         /\ ledger' = create_task(ledger, w, NX)
    /\ UNCHANGED <<repo, backend, dispatched, dirs, nextId, lock, pc, loc, probe>>

NextSerial ==
    \/ CreateWorkflow(Caller)
    \/ ArBegin(Caller)
    \/ ArMain(Caller)
    \/ SnBegin(Caller)
    \/ SnValidate(Caller)
    \/ SnDispatch(Caller)
    \/ SnLedger(Caller)
    \/ SnPersist(Caller)
    \/ GwBegin(Caller)
    \/ GwRelease(Caller)
    \/ GwFinish(Caller)
    \/ DwBegin(Caller)
    \/ DwTasks(Caller)
    \/ DwDir(Caller)
    \/ LwScan(Caller)
    \/ LwRelease(Caller)
    \/ LwFinish(Caller)
    \/ Return(Caller)
    \/ TaskCompletes
    \/ StrayTask

SpecSerial == Init /\ [][NextSerial]_vars

----------------------------------------------------------------------------
\* One caller at a time, in a process that can die at any step

\* The process of the engine dies and is started again: the lock and the
\* threads with their locals are gone, the collections, the file system and
\* the tasks at the backend stay as they are.
Crash ==
    /\ Quiet
    /\ \E t \in Threads : pc[t] # "idle"
    /\ lock' = NoThread
    /\ pc' = [t \in Threads |-> "idle"]
    /\ loc' = [t \in Threads |-> NoLocal]
    /\ UNCHANGED <<repo, ledger, backend, dispatched, dirs, nextId, probe>>

NextCrash ==
    \/ CreateWorkflow(Caller)
    \/ ArBegin(Caller)
    \/ ArMain(Caller)
    \/ SnBegin(Caller)
    \/ SnValidate(Caller)
    \/ SnDispatch(Caller)
    \/ SnLedger(Caller)
    \/ SnPersist(Caller)
    \/ GwBegin(Caller)
    \/ GwRelease(Caller)
    \/ GwFinish(Caller)
    \/ DwBegin(Caller)
    \/ DwTasks(Caller)
    \/ DwDir(Caller)
    \/ LwScan(Caller)
    \/ LwRelease(Caller)
    \/ LwFinish(Caller)
    \/ Return(Caller)
    \/ TaskCompletes
    \/ Crash

SpecCrash == Init /\ [][NextCrash]_vars

----------------------------------------------------------------------------
\* One caller whose calls to the backend and to MongoDB inside submit_nodes
\* may raise

\* submit_nodes, lines 380-390: adage.submit_node, task_manager.create_task
\* or db.update_workflow raises; the exception leaves the with-block, which
\* releases the lock, and nothing that was done before is taken back
SnRaises(t) ==
    /\ Quiet
    /\ pc[t] \in {"sn_dispatch", "sn_ledger", "sn_persist"}
    /\ lock' = NoThread
    /\ loc' = [loc EXCEPT ![t].res = [rv |-> "raise", found |-> TRUE, at |-> pc[t]]]
    /\ pc' = [pc EXCEPT ![t] = "done"]
    /\ UNCHANGED <<repo, ledger, backend, dispatched, dirs, nextId, probe>>

NextFail ==
    \/ CreateWorkflow(Caller)
    \/ ArBegin(Caller)
    \/ ArMain(Caller)
    \/ SnBegin(Caller)
    \/ SnValidate(Caller)
    \/ SnDispatch(Caller)
    \/ SnLedger(Caller)
    \/ SnPersist(Caller)
    \/ SnRaises(Caller)
    \/ GwBegin(Caller)
    \/ GwRelease(Caller)
    \/ GwFinish(Caller)
    \/ DwBegin(Caller)
    \/ DwTasks(Caller)
    \/ DwDir(Caller)
    \/ LwScan(Caller)
    \/ LwRelease(Caller)
    \/ LwFinish(Caller)
    \/ Return(Caller)
    \/ TaskCompletes

SpecFail == Init /\ [][NextFail]_vars

----------------------------------------------------------------------------
\* Stand-alone calls of get_workflow_state on arbitrary graphs

ProbeNodes == NodeIds \cup {"C"}
ProbeRules == {<<>>, <<"r1">>, <<"r1", "r2">>}

InitState ==
    /\ repo = [w \in WIds |-> None]
    /\ ledger = [w \in WIds |-> [n \in LedgerNodes |-> 0]]
    /\ backend = [w \in WIds |-> [n \in NodeIds |-> "none"]]
    /\ dispatched = [w \in WIds |-> [n \in NodeIds |-> 0]]
    /\ dirs = {}
    /\ nextId = MaxWorkflows
    /\ lock = NoThread
    /\ pc = [t \in Threads |-> "idle"]
    /\ loc = [t \in Threads |-> NoLocal]
    /\ \E S \in SUBSET ProbeNodes :
       \E sts \in [S -> NodeStates], order \in Orders(S), rules \in ProbeRules :
         probe = [rules |-> rules, sts |-> sts, order |-> order, called |-> FALSE,
                  state |-> "-"]

Derive ==
    /\ ~probe.called
    /\ probe' = [probe EXCEPT !.called = TRUE,
                              !.state = get_workflow_state(probe.rules, probe.sts,
                                                           probe.order)]
    /\ UNCHANGED <<repo, ledger, backend, dispatched, dirs, nextId, lock, pc, loc>>

NextState == Derive

SpecState == InitState /\ [][NextState]_vars

----------------------------------------------------------------------------
\* The repository called on its own: create_workflow, update_workflow and
\* delete_workflow with identifiers, names, states and graphs from small sets

RepoNames == {"T", "U"}
RepoStates == {WORKFLOW_WAITING, WORKFLOW_RUNNING}

\* the serialization of a new workflow and of one with the first rule applied
RepoGraphs(w) ==
    {json(NewWorkflow, w), json(RuleLoop(NewWorkflow, w, <<"r1">>, "ok").g, w)}

InitRepo ==
    /\ repo = [w \in WIds |-> None]
    /\ ledger = [w \in WIds |-> [n \in LedgerNodes |-> 0]]
    /\ backend = [w \in WIds |-> [n \in NodeIds |-> "none"]]
    /\ dispatched = [w \in WIds |-> [n \in NodeIds |-> 0]]
    /\ dirs = {}
    /\ nextId = 1
    /\ lock = NoThread
    /\ pc = [t \in Threads |-> "idle"]
    /\ loc = [t \in Threads |-> NoLocal]
    /\ probe = [op |-> "none", wid |-> 0, doc |-> None, raised |-> FALSE, rv |-> None]

\* MongoDBWorkflowRepository.create_workflow
RepoCreate ==
    \E w \in WIds, name \in RepoNames, state \in RepoStates :
    \E wjson \in RepoGraphs(w) :
        LET R == db_create_workflow(repo, w, name, state, wjson)
        IN  /\ repo' = R.repo
            /\ probe' = [op |-> "create", wid |-> w, doc |-> Document(name, state, wjson),
                         raised |-> R.raised, rv |-> R.inst]
            /\ UNCHANGED <<ledger, backend, dispatched, dirs, nextId, lock, pc, loc>>

\* MongoDBWorkflowRepository.update_workflow
RepoUpdate ==
    \E w \in WIds, name \in RepoNames, state \in RepoStates :
    \E wjson \in RepoGraphs(w) :
        /\ repo' = db_update_workflow(repo, w, name, state, wjson)
        /\ probe' = [op |-> "update", wid |-> w, doc |-> Document(name, state, wjson),
                     raised |-> FALSE,
                     rv |-> db_update_result(repo, w, name, state, wjson)]
        /\ UNCHANGED <<ledger, backend, dispatched, dirs, nextId, lock, pc, loc>>

\* MongoDBWorkflowRepository.delete_workflow
RepoDelete ==
    \E w \in WIds :
        /\ repo' = [repo EXCEPT ![w] = None]
        /\ probe' = [op |-> "delete", wid |-> w, doc |-> None, raised |-> FALSE,
                     rv |-> repo[w] # None]
        /\ UNCHANGED <<ledger, backend, dispatched, dirs, nextId, lock, pc, loc>>

NextRepo == RepoCreate \/ RepoUpdate \/ RepoDelete

SpecRepo == InitRepo /\ [][NextRepo]_vars

----------------------------------------------------------------------------
\* The task manager called on its own (tests/test_task_manager.py):
\* create_task, delete_task and delete_tasks with identifiers from small sets

InitLedger ==
    /\ repo = [w \in WIds |-> None]
    /\ ledger = [w \in WIds |-> [n \in LedgerNodes |-> 0]]
    /\ backend = [w \in WIds |-> [n \in NodeIds |-> "none"]]
    /\ dispatched = [w \in WIds |-> [n \in NodeIds |-> 0]]
    /\ dirs = {}
    /\ nextId = 1
    /\ lock = NoThread
    /\ pc = [t \in Threads |-> "idle"]
    /\ loc = [t \in Threads |-> NoLocal]
    /\ probe = [op |-> "none", wid |-> 0, node |-> "-", had |-> 0]

\* MongoDBTaskManager.create_task
LedgerCreate ==
    \E w \in WIds, n \in NodeIds :
        /\ ledger[w][n] < MaxCount
        /\ ledger' = create_task(ledger, w, n)
        /\ probe' = [op |-> "create_task", wid |-> w, node |-> n, had |-> ledger[w][n]]
        /\ UNCHANGED <<repo, backend, dispatched, dirs, nextId, lock, pc, loc>>

\* MongoDBTaskManager.delete_task
LedgerDeleteTask ==
    \E w \in WIds, n \in NodeIds :
        /\ ledger' = delete_task(ledger, w, n)
        /\ probe' = [op |-> "delete_task", wid |-> w, node |-> n, had |-> ledger[w][n]]
        /\ UNCHANGED <<repo, backend, dispatched, dirs, nextId, lock, pc, loc>>

\* MongoDBTaskManager.delete_tasks
LedgerDeleteTasks ==
    \E w \in WIds :
        /\ ledger' = delete_tasks(ledger, w)
        /\ probe' = [op |-> "delete_tasks", wid |-> w, node |-> "-",
                     had |-> IF has_tasks(ledger, w) THEN 1 ELSE 0]
        /\ UNCHANGED <<repo, backend, dispatched, dirs, nextId, lock, pc, loc>>

NextLedger == LedgerCreate \/ LedgerDeleteTask \/ LedgerDeleteTasks

SpecLedger == InitLedger /\ [][NextLedger]_vars

----------------------------------------------------------------------------
\* A client that drives one workflow to its end (tests/run_workflow.py): it
\* applies the applicable rules if there are any, else submits the
\* submittable nodes if there are any, else asks again while the status is
\* RUNNING.  probe is the client's variable wf with the place in its loop.

InitClient ==
    /\ repo = [w \in WIds |-> None]
    /\ ledger = [w \in WIds |-> [n \in LedgerNodes |-> 0]]
    /\ backend = [w \in WIds |-> [n \in NodeIds |-> "none"]]
    /\ dispatched = [w \in WIds |-> [n \in NodeIds |-> 0]]
    /\ dirs = {}
    /\ nextId = MaxWorkflows
    /\ lock = NoThread
    /\ pc = [t \in Threads |-> "idle"]
    /\ loc = [t \in Threads |-> NoLocal]
    /\ probe = [phase |-> "create", wid |-> 0, status |-> "-",
                applicable |-> <<>>, submittable |-> <<>>]

\* while not wf['status'] in [WORKFLOW_ERROR, WORKFLOW_SUCCESS]
ClientLoops ==
    /\ probe.phase = "decide"
    /\ probe.status \notin {WORKFLOW_FAILED, WORKFLOW_SUCCESS}

\* wf = engine.create_workflow(...)
ClientCreate ==
    /\ probe.phase = "create"
    /\ CreateWorkflow(Caller)

\* the client asks for the workflow: after create_workflow, apply_rules and
\* submit_nodes, which return no listing, and in the branch for RUNNING
ClientGet ==
    /\ \/ probe.phase = "get"
       \/ /\ ClientLoops
          /\ probe.applicable = <<>>
          /\ probe.submittable = <<>>
          /\ probe.status = WORKFLOW_RUNNING
    /\ GwBegin(Caller)
    /\ loc'[Caller].wid = probe.wid

\* engine.apply_rules(wf['id'], wf['applicableRules'])
ClientApply ==
    \/ /\ ClientLoops
       /\ probe.applicable # <<>>
       /\ ArBegin(Caller)
       /\ loc'[Caller].wid = probe.wid
    \/ /\ ArMain(Caller)
       /\ loc'[Caller].batch = probe.applicable

\* engine.submit_nodes(wf['id'], wf['submittableNodes'])
ClientSubmit ==
    \/ /\ ClientLoops
       /\ probe.applicable = <<>>
       /\ probe.submittable # <<>>
       /\ SnBegin(Caller)
       /\ loc'[Caller].wid = probe.wid
    \/ /\ SnValidate(Caller)
       /\ loc'[Caller].batch = probe.submittable

\* the call returns and the client assigns wf
ClientTake ==
    /\ pc[Caller] = "done"
    /\ LET l == loc[Caller]
       IN  probe' =
             CASE l.op = "create_workflow" /\ l.res.rv = "created"
                    -> [probe EXCEPT !.phase = "get", !.wid = l.wid]
               [] l.op = "get_workflow" /\ l.res.rv = "instance"
                    -> [probe EXCEPT !.phase = "decide",
                                     !.status = l.res.state,
                                     !.applicable = l.res.applicable,
                                     !.submittable = l.res.submittable]
               [] l.op \in {"apply_rules", "submit_nodes"}
                    -> [probe EXCEPT !.phase = "get"]
               [] OTHER -> [probe EXCEPT !.phase = "stop"]
    /\ pc' = [pc EXCEPT ![Caller] = "idle"]
    /\ loc' = [loc EXCEPT ![Caller] = NoLocal]
    /\ UNCHANGED <<repo, ledger, backend, dispatched, dirs, nextId, lock>>

ClientNext ==
    \/ ClientCreate
    \/ ClientGet
    \/ GwRelease(Caller)
    \/ GwFinish(Caller)
    \/ ClientApply
    \/ ClientSubmit
    \/ SnDispatch(Caller)
    \/ SnLedger(Caller)
    \/ SnPersist(Caller)
    \/ ClientTake

NextClient == ClientNext \/ TaskCompletes

\* the client goes on with its loop, and the backend finishes every task it
\* was given, whatever the client does in the meantime
SpecClient ==
    /\ InitClient
    /\ [][NextClient]_vars
    /\ WF_vars(ClientNext)
    /\ SF_vars(TaskCompletes)

----------------------------------------------------------------------------
\* Requests on one workflow while another one is stored.  Workflow Bystander
\* was created earlier, its rule r1 was applied and its node A submitted; the
\* task has finished and its ledger entry is still there.  The threads create
\* the next workflow and send get_workflow, apply_rules, submit_nodes and
\* delete_workflow requests for every identifier but Bystander.

Bystander == 1

BystanderDoc ==
    [name |-> "T", state |-> WORKFLOW_RUNNING,
     rules |-> <<"r2">>, applied |-> <<"r1">>,
     dag |-> [EmptyDag EXCEPT !["A"] =
                [present |-> TRUE, sub |-> TRUE, st |-> RUNNING, ups |-> {}]]]

InitOther ==
    /\ repo = [w \in WIds |-> IF w = Bystander THEN BystanderDoc ELSE None]
    /\ ledger = [w \in WIds |-> [n \in LedgerNodes |->
                   IF w = Bystander /\ n = "A" THEN 1 ELSE 0]]
    /\ backend = [w \in WIds |-> [n \in NodeIds |->
                    IF w = Bystander /\ n = "A" THEN SUCCESS ELSE "none"]]
    /\ dispatched = [w \in WIds |-> [n \in NodeIds |->
                       IF w = Bystander /\ n = "A" THEN 1 ELSE 0]]
    /\ dirs = {Bystander}
    /\ nextId = MaxWorkflows
    /\ lock = NoThread
    /\ pc = [t \in Threads |-> "idle"]
    /\ loc = [t \in Threads |-> NoLocal]
    /\ probe = None

\* the request of thread t is not for Bystander
Elsewhere(t) == loc'[t].wid # Bystander

NextOther ==
    \/ \E t \in Threads : CreateWorkflow(t)
    \/ \E t \in Threads : ArBegin(t) /\ Elsewhere(t)
    \/ \E t \in Threads : ArMain(t)
    \/ \E t \in Threads : SnBegin(t) /\ Elsewhere(t)
    \/ \E t \in Threads : SnValidate(t)
    \/ \E t \in Threads : SnDispatch(t)
    \/ \E t \in Threads : SnLedger(t)
    \/ \E t \in Threads : SnPersist(t)
    \/ \E t \in Threads : GwBegin(t) /\ Elsewhere(t)
    \/ \E t \in Threads : GwRelease(t)
    \/ \E t \in Threads : GwFinish(t)
    \/ \E t \in Threads : DwBegin(t) /\ Elsewhere(t)
    \/ \E t \in Threads : DwTasks(t)
    \/ \E t \in Threads : DwDir(t)
    \/ \E t \in Threads : Return(t)
    \/ TaskCompletes

SpecOther == InitOther /\ [][NextOther]_vars

----------------------------------------------------------------------------
\* A single client that reads the workflow with get_workflow and then either
\* reads it again, applies rules of its choice, or submits some of the
\* nodes that get_workflow listed as submittable.  probe is what the client
\* has read, as in SpecClient.

\* the lists without repetition over the members of the list L, but the
\* empty one
Picks(L) ==
    {S \in SeqsUpTo(Range(L), Len(L)) :
        /\ S # <<>>
        /\ \A i, j \in 1..Len(S) : S[i] = S[j] => i = j}

PickGet ==
    /\ probe.phase \in {"get", "decide"}
    /\ GwBegin(Caller)
    /\ loc'[Caller].wid = probe.wid

PickApply ==
    \/ /\ probe.phase = "decide"
       /\ ArBegin(Caller)
       /\ loc'[Caller].wid = probe.wid
    \/ ArMain(Caller)

PickSubmit ==
    \/ /\ probe.phase = "decide"
       /\ probe.submittable # <<>>
       /\ SnBegin(Caller)
       /\ loc'[Caller].wid = probe.wid
    \/ /\ SnValidate(Caller)
       /\ loc'[Caller].batch \in Picks(probe.submittable)

NextPick ==
    \/ ClientCreate
    \/ PickGet
    \/ GwRelease(Caller)
    \/ GwFinish(Caller)
    \/ PickApply
    \/ PickSubmit
    \/ SnDispatch(Caller)
    \/ SnLedger(Caller)
    \/ SnPersist(Caller)
    \/ ClientTake
    \/ TaskCompletes

SpecPick == InitClient /\ [][NextPick]_vars

----------------------------------------------------------------------------
\* Properties

\* C1: each node of a workflow is handed to the execution backend at most
\* once, and the ledger never holds more than one entry for a (workflow, node)
\* pair, whatever operations the threads interleave.
C1_DispatchedOnce ==
    \A w \in WIds :
        /\ \A n \in NodeIds : dispatched[w][n] <= 1
        /\ \A n \in LedgerNodes : ledger[w][n] <= 1

\* a request for an already dispatched node was turned down while the node's
\* single ledger entry was still there
C1_Witness ==
    \E t \in Threads :
        /\ pc[t] = "done"
        /\ loc[t].op = "submit_nodes"
        /\ loc[t].res.rv = "False"
        /\ \E n \in NodeIds :
             /\ n \in Range(loc[t].batch)
             /\ dispatched[loc[t].wid][n] = 1
             /\ ledger[loc[t].wid][n] = 1

\* the positions at which a thread is inside a with self.lock block
LockedPcs ==
    {"ar_main", "sn_main", "sn_dispatch", "sn_ledger", "sn_persist",
     "gw_locked", "dw_tasks", "dw_dir", "lw_locked"}

C2_Exclusive ==
    /\ \A t \in Threads : pc[t] \in LockedPcs => lock = t
    /\ Cardinality({t \in Threads : pc[t] \in LockedPcs}) <= 1

\* a step that inserts or deletes a ledger entry, or updates or deletes a
\* stored workflow
C2_Writes ==
    \/ ledger' # ledger
    \/ \E w \in WIds : repo[w] # None /\ repo'[w] # repo[w]

C2_WriteUnderLock ==
    C2_Writes => \/ lock = NoThread /\ (lock' # NoThread \/ \E t \in Threads : pc'[t] = "done")
                 \/ lock # NoThread /\ pc'[lock] # pc[lock]

\* C2: the locked sections of apply_rules, submit_nodes, delete_workflow,
\* list_workflows and get_workflow exclude each other, and every update or
\* delete of a stored workflow and every insert or delete of a ledger entry is
\* done by the thread that holds the lock.
C2_MutualExclusion == [](C2_Exclusive) /\ [][C2_WriteUnderLock]_vars

\* one thread persists a submission under the lock while the other is in the
\* unlocked part of get_workflow for the same workflow
C2_Witness ==
    \E t, u \in Threads :
        /\ t # u
        /\ pc[t] = "sn_persist" /\ lock = t
        /\ pc[u] = "gw_unlocked"
        /\ loc[u].wid = loc[t].wid


\* the rules of a stored workflow that are pending and applicable
ApplicableSet(doc, w) ==
    {r \in Range(doc.rules) : applicable(fromJSON(doc), w, r)}

HasDuplicate(batch) ==
    \E i, j \in 1..Len(batch) : i < j /\ batch[i] = batch[j]

\* a thread that has just finished operation op on an existing workflow
Finished(t, op) ==
    /\ pc[t] = "done"
    /\ loc[t].op = op
    /\ loc[t].res.found
    /\ loc[t].res.rv # "raise"

\* C3: apply_rules(id, [r1, r2]) with r1 applicable and r2 not applicable
\* fails, and the stored workflow (graph, applied rules, pending rules) is
\* what it was before the call.
C3_NoPartialApply ==
    \A t \in Threads :
        LET l == loc[t]
            app == ApplicableSet(l.pre.doc, l.wid)
        IN  (/\ Finished(t, "apply_rules")
             /\ Len(l.batch) = 2
             /\ l.batch[1] \in app
             /\ l.batch[2] \notin app)
            => /\ l.res.rv # "True"
               /\ repo[l.wid] = l.pre.doc

\* C4: apply_rules turns the whole request down, without applying a rule,
\* when some requested identifier is not in the applicable set or occurs
\* twice.
C4_RejectsInvalidRules ==
    \A t \in Threads :
        LET l == loc[t]
            app == ApplicableSet(l.mid.doc, l.wid)
        IN  (/\ Finished(t, "apply_rules")
             /\ \/ \E i \in 1..Len(l.batch) : l.batch[i] \notin app
                \/ HasDuplicate(l.batch))
            => /\ l.res.rv = "False"
               /\ repo[l.wid] = l.mid.doc

\* the nodes of graph g that have no ledger entry in ledw, no submit_time and
\* only successful upstream nodes
SubmittableSet(g, w, ledw) ==
    {n \in Nodes(g) :
        /\ ledw[n] = 0
        /\ ~g.dag[n].sub
        /\ \A u \in g.dag[n].ups : NodeState(g, w, u) = SUCCESS}

InvalidNodes(batch, S) ==
    \/ \E i \in 1..Len(batch) : batch[i] \notin S
    \/ HasDuplicate(batch)

\* a submit_nodes request that was not valid for the reconciled workflow
C5_InvalidRequest(t) ==
    /\ Finished(t, "submit_nodes")
    /\ InvalidNodes(loc[t].batch,
                    SubmittableSet(fromJSON(loc[t].mid.doc), loc[t].wid, loc[t].mid.led))

\* C5 as stated: submit_nodes turns an invalid request down; nothing is
\* dispatched, no ledger entry is created and the stored workflow is what it
\* was before the call.
C5_RejectUnchanged ==
    \A t \in Threads :
        LET l == loc[t]
        IN  C5_InvalidRequest(t)
            => /\ l.res.rv = "False"
               /\ dispatched[l.wid] = l.pre.disp
               /\ \A n \in LedgerNodes : ledger[l.wid][n] <= l.pre.led[n]
               /\ repo[l.wid] = l.pre.doc

\* C5, amended: submit_nodes turns an invalid request down; nothing is
\* dispatched, no ledger entry is created and the stored workflow is what the
\* reconciliation at the start of the call left.
C5_RejectNoSubmission ==
    \A t \in Threads :
        LET l == loc[t]
        IN  C5_InvalidRequest(t)
            => /\ l.res.rv = "False"
               /\ dispatched[l.wid] = l.pre.disp
               /\ \A n \in LedgerNodes : ledger[l.wid][n] <= l.pre.led[n]
               /\ repo[l.wid] = l.mid.doc

\* a request for a node whose upstream node has not succeeded was turned down
C5_Witness ==
    \E t \in Threads :
        /\ C5_InvalidRequest(t)
        /\ loc[t].res.rv = "False"
        /\ \E n \in Range(loc[t].batch) \cap Nodes(loc[t].g) :
             /\ loc[t].g.dag[n].ups # {}
             /\ ~upstream_ok(loc[t].g, loc[t].wid, n)

C6_Step ==
    \A t \in Threads :
        LET w == loc[t].wid
        IN  /\ (pc[t] = "gw_unlocked" /\ pc'[t] = "done")
               => LET S == SubmittableSet(loc[t].g, w, ledger[w])
                  IN  /\ Range(loc'[t].res.submittable) = S
                      /\ Len(loc'[t].res.submittable) = Cardinality(S)
            /\ (pc[t] = "sn_main" /\ pc'[t] # "sn_main" /\ loc[t].inst # None)
               => LET S == SubmittableSet(loc[t].g, w, ledger[w])
                  IN  (pc'[t] # "done") <=> ~InvalidNodes(loc'[t].batch, S)

Priority(rules, sts) ==
    IF \E n \in DOMAIN sts : sts[n] = FAILED THEN WORKFLOW_FAILED
    ELSE IF \E n \in DOMAIN sts : sts[n] = RUNNING THEN WORKFLOW_RUNNING
    ELSE IF (\E n \in DOMAIN sts : sts[n] # SUCCESS) \/ Len(rules) > 0
    THEN WORKFLOW_WAITING
    ELSE WORKFLOW_SUCCESS

\* C7: the derived status is FAILED if a node is FAILED, else RUNNING if a
\* node is RUNNING, else WAITING if a node is not successful or a rule is
\* pending, else SUCCESS; SUCCESS means no pending rule and every node
\* successful.
C7_StatusPriority ==
    probe.called
    => /\ probe.state = Priority(probe.rules, probe.sts)
       /\ probe.state = WORKFLOW_SUCCESS
          => /\ probe.rules = <<>>
             /\ \A n \in DOMAIN probe.sts : probe.sts[n] = SUCCESS

\* no rule is pending, one node is DEFINED behind a successful one: WAITING
C7_Witness ==
    /\ probe.called
    /\ probe.rules = <<>>
    /\ probe.state = WORKFLOW_WAITING
    /\ Len(probe.order) = 2
    /\ probe.sts[probe.order[1]] = DEFINED
    /\ probe.sts[probe.order[2]] = SUCCESS

\* C8: a graph with a FAILED node has status FAILED, in whatever order the
\* nodes are visited and whatever else is RUNNING, DEFINED or pending.
C8_FailedWins ==
    (probe.called /\ \E n \in DOMAIN probe.sts : probe.sts[n] = FAILED)
    => probe.state = WORKFLOW_FAILED

\* the FAILED node is visited first, a RUNNING and a DEFINED node after it,
\* and rules are pending
C8_Witness ==
    /\ probe.called
    /\ probe.state = WORKFLOW_FAILED
    /\ probe.rules # <<>>
    /\ Len(probe.order) = 3
    /\ probe.sts[probe.order[1]] = FAILED
    /\ probe.sts[probe.order[2]] = RUNNING
    /\ probe.sts[probe.order[3]] = DEFINED

\* the status derived from the graph a stored workflow holds
StoredStatus(doc) ==
    Priority(doc.rules, [n \in Nodes(doc) |-> doc.dag[n].st])

\* C9: every stored workflow carries the status derived from the graph stored
\* with it; apply_rules recomputes the status after applying the rules.
C9_StatusOfStoredGraph ==
    \A w \in WIds : repo[w] # None => repo[w].state = StoredStatus(repo[w])

C10_StatusAfterSubmit ==
    \A t \in Threads :
        LET w == loc[t].wid
        IN  (/\ Finished(t, "submit_nodes")
             /\ loc[t].res.rv = "True"
             /\ Len(loc[t].batch) = 1)
            => /\ repo[w].state = StoredStatus(repo[w])
               /\ (/\ backend[w][loc[t].batch[1]] = RUNNING
                   /\ \A n \in Nodes(repo[w]) : repo[w].dag[n].st # FAILED)
                  => repo[w].state = WORKFLOW_RUNNING

\* thread t enters get_workflow for w, or list_workflows
C10_Read(t, w) ==
    /\ pc[t] = "idle"
    /\ \/ pc'[t] = "gw_locked" /\ loc'[t].wid = w
       \/ pc'[t] = "lw_locked"

\* a read of a workflow whose submitted node n has succeeded while the ledger
\* still holds its entry removes the entry and stores the status derived from
\* the graph, which is RUNNING only if another node is running
C10_Reconcile ==
    \A t \in Threads, w \in WIds, n \in NodeIds :
        (/\ C10_Read(t, w)
         /\ repo[w] # None
         /\ repo[w].dag[n].sub
         /\ ledger[w][n] > 0
         /\ backend[w][n] = SUCCESS)
        => /\ ledger'[w][n] = 0
           /\ repo'[w].dag[n].st = SUCCESS
           /\ repo'[w].state = StoredStatus(repo'[w])
           /\ repo'[w].state = WORKFLOW_RUNNING
              => \E m \in Nodes(repo'[w]) \ {n} : repo'[w].dag[m].st = RUNNING
           /\ pc'[t] = "gw_locked" => loc'[t].inst.state = repo'[w].state

ReconcileStep(t, w) ==
    /\ pc[t] = "idle"
    /\ pc'[t] # "idle"
    /\ loc'[t].op \in {"apply_rules", "submit_nodes", "get_workflow"}
    /\ loc'[t].wid = w
    /\ repo[w] # None

\* thread t runs the scan of list_workflows
ScanStep(t) ==
    /\ pc[t] = "idle"
    /\ pc'[t] # "idle"
    /\ loc'[t].op = "list_workflows"

\* the ledger entries of w whose node is in the stored graph and has finished
TerminalEntries(w) ==
    {n \in list_tasks(ledger, w) \cap NodeIds :
        /\ n \in Nodes(repo[w])
        /\ NodeState(fromJSON(repo[w]), w, n) \in {SUCCESS, FAILED}}

\* the ledger entries of w whose node is not in the stored graph
OrphanEntries(w) ==
    {n \in list_tasks(ledger, w) : n \notin NodeIds \/ n \notin Nodes(repo[w])}

\* what a reconciliation of w did, given the set of workflows it wrote
C11_Run(w, wrote) ==
    /\ w \in wrote => \E n \in LedgerNodes : ledger'[w][n] < ledger[w][n]
    /\ TerminalEntries(w) = {}
       => /\ w \notin wrote
          /\ repo'[w] = repo[w]
          /\ ledger'[w] = ledger[w]

C11_Step ==
    \A t \in Threads :
        /\ \A w \in WIds :
             ReconcileStep(t, w)
             => /\ C11_Run(w, loc'[t].wrote)
                /\ \A tperm \in Orders(list_tasks(ledger', w)),
                      nperm \in Orders(NodeIds) :
                     LET again == get_current_workflow_objects(w, repo', ledger',
                                                               tperm, nperm)
                     IN  ~again.wrote /\ again.repo = repo'
        /\ ScanStep(t)
           => /\ \A w \in WIds : repo[w] # None => C11_Run(w, loc'[t].wrote)
              /\ \A wperm \in Orders(task_list_workflows(ledger')),
                    tperm \in Orders(UNION {list_tasks(ledger', w) : w \in WIds}),
                    nperm \in Orders(NodeIds) :
                   LET again == ScanLoop(OrderOf(wperm, task_list_workflows(ledger')),
                                         repo', ledger', tperm, nperm, {})
                   IN  again.wrote = {} /\ again.repo = repo'

\* C11: a reconciliation stores the workflow only when it has removed a
\* ledger entry in that run; when no node with a ledger entry has finished it
\* does not store the workflow and does not change the ledger; a second
\* reconciliation right after the first stores nothing and leaves the stored
\* workflow as it is.
C11_WritesOnlyOnChange == [][C11_Step]_vars

\* get_workflow found the entry of a node that is still running and stored
\* nothing
C11_Witness ==
    \E t \in Threads :
        /\ Finished(t, "get_workflow")
        /\ loc[t].pre.led["A"] = 1
        /\ loc[t].mid.led["A"] = 1
        /\ backend[loc[t].wid]["A"] = RUNNING
        /\ loc[t].wrote = {}
        /\ loc[t].mid.doc = loc[t].pre.doc

C12_Step ==
    \A t \in Threads, w \in WIds :
        ReconcileStep(t, w)
        => \A n \in list_tasks(ledger, w) :
             ledger'[w][n] = 0 <=> n \in TerminalEntries(w) \cup OrphanEntries(w)

\* C12: a reconciliation of a workflow removes exactly the ledger entries
\* whose node has finished (SUCCESS or FAILED) or is not in the graph, and
\* keeps every entry whose node is in the graph and has not finished.
C12_RemovesExactly == [][C12_Step]_vars

C13_Step ==
    \A t \in Threads :
        /\ \A w \in WIds :
             (ReconcileStep(t, w) /\ OrphanEntries(w) # {})
             => /\ pc'[t] # "done"
                /\ \A n \in OrphanEntries(w) \cup TerminalEntries(w) : ledger'[w][n] = 0
        /\ (ScanStep(t) /\ \E w \in WIds : repo[w] # None /\ OrphanEntries(w) # {})
           => /\ pc'[t] # "done"
              /\ \A w \in WIds :
                   repo[w] # None
                   => \A n \in OrphanEntries(w) \cup TerminalEntries(w) : ledger'[w][n] = 0

\* C13: a reconciliation that meets a ledger entry whose node is not in the
\* graph deletes the entry and goes on with the other entries; get_workflow,
\* apply_rules, submit_nodes and list_workflows see no error.
C13_OrphanHealed == [][C13_Step]_vars

\* the nodes the first k rules of batch define
DefinedBy(batch, k) == {RuleNode(batch[i]) : i \in 1..k}

\* C14: a successful apply_rules(id, rule_ids) applies the rules in the given
\* order, takes each out of the pending rules and appends it to the log of
\* applied rules: the log grows by len(rule_ids), and no applied identifier
\* is pending or applicable afterwards.
C14_AppliedInOrder ==
    \A t \in Threads :
        LET l == loc[t]
            w == l.wid
            before == l.mid.doc
            after == repo[w]
        IN  (Finished(t, "apply_rules") /\ l.res.rv = "True")
            => /\ after.applied = before.applied \o l.batch
               /\ Len(after.applied) = Len(before.applied) + Len(l.batch)
               /\ after.rules = SelectSeq(before.rules, LAMBDA x : x \notin Range(l.batch))
               /\ \A i \in 1..Len(l.batch) :
                    /\ l.batch[i] \notin Range(after.rules)
                    /\ l.batch[i] \notin Range(applicable_rules(fromJSON(after), w))
                    /\ after.dag[RuleNode(l.batch[i])].present
                    /\ after.dag[RuleNode(l.batch[i])].ups =
                         RuleUps(l.batch[i]) \cap
                           (Nodes(before) \cup DefinedBy(l.batch, i - 1))

\* apply_rules(id, [r1, r2]) succeeded on a workflow with both rules pending
C14_Witness ==
    \E t \in Threads :
        /\ Finished(t, "apply_rules")
        /\ loc[t].res.rv = "True"
        /\ loc[t].batch = <<"r1", "r2">>
        /\ repo[loc[t].wid].applied = <<"r1", "r2">>
        /\ repo[loc[t].wid].rules = <<>>

IsPrefix(s, q) == Len(s) <= Len(q) /\ \A i \in 1..Len(s) : s[i] = q[i]

C15_Disjoint ==
    \A w \in WIds :
        repo[w] # None => Range(repo[w].rules) \cap Range(repo[w].applied) = {}

C15_Append ==
    \A w \in WIds :
        (repo[w] # None /\ repo'[w] # None)
        => IsPrefix(repo[w].applied, repo'[w].applied)

\* C15: over any sequence of engine operations the stored log of applied
\* rules only grows by appending (an earlier log is a prefix of every later
\* one), and no rule identifier is pending and in the log at once.
C15_AppendOnlyLog == [](C15_Disjoint) /\ [][C15_Append]_vars

\* the log has grown twice: r2 was appended to the log that held r1
C15_Witness ==
    \E t \in Threads :
        /\ Finished(t, "apply_rules")
        /\ loc[t].res.rv = "True"
        /\ loc[t].mid.doc.applied = <<"r1">>
        /\ repo[loc[t].wid].applied = <<"r1", "r2">>

C17_DeleteRemovesAll ==
    \A t \in Threads :
        LET l == loc[t]
            w == l.wid
        IN  /\ (pc[t] = "done" /\ l.op = "delete_workflow" /\ l.pre.doc # None)
               => l.res.rv = "True"
            /\ (pc[t] = "done" /\ l.op = "delete_workflow" /\ l.res.rv = "True")
               => /\ repo[w] = None
                  /\ \A n \in LedgerNodes : ledger[w][n] = 0
                  /\ w \notin dirs

\* a workflow with a running task and its ledger entry was deleted
C17_Witness ==
    \E t \in Threads :
        /\ pc[t] = "done"
        /\ loc[t].op = "delete_workflow"
        /\ loc[t].res.rv = "True"
        /\ loc[t].pre.led["A"] = 1
        /\ backend[loc[t].wid]["A"] = RUNNING

\* the workflow w was stored once and has been deleted
Deleted(w) == w < nextId /\ repo[w] = None

C18_NotFound ==
    \A t \in Threads :
        (/\ pc[t] = "done"
         /\ loc[t].op = "get_workflow"
         /\ loc[t].pre.doc = None)
        => loc[t].res.rv = "None"

C18_Step ==
    \A t \in Threads, w \in WIds :
        (/\ pc[t] = "idle"
         /\ pc'[t] # "idle"
         /\ loc'[t].op \in {"delete_workflow", "get_workflow"}
         /\ loc'[t].wid = w
         /\ Deleted(w))
        => /\ UNCHANGED <<repo, ledger, dirs>>
           /\ loc'[t].op = "delete_workflow"
              => pc'[t] = "done" /\ loc'[t].res.rv = "False"

\* C18: once delete_workflow(id) has succeeded, get_workflow(id) finds no
\* workflow, and another delete_workflow(id) returns False, raises nothing
\* and leaves repository, ledger and file system as they are.
C18_DeleteIdempotent == [](C18_NotFound) /\ [][C18_Step]_vars

\* the workflow created in this run was deleted, and a second delete_workflow
\* returned False
C18_Witness ==
    \E t \in Threads :
        /\ pc[t] = "done"
        /\ loc[t].op = "delete_workflow"
        /\ loc[t].res.rv = "False"
        /\ loc[t].wid = MaxWorkflows
        /\ nextId > MaxWorkflows

\* the submittable nodes of a stored workflow, from the node states stored
\* with it and the ledger entries ledw
SnapshotSubmittable(doc, ledw) ==
    {n \in Nodes(doc) :
        /\ ledw[n] = 0
        /\ ~doc.dag[n].sub
        /\ \A u \in doc.dag[n].ups : doc.dag[u].st = SUCCESS}

\* no task of the workflow has finished since get_workflow read it
C19_NoCompletion(t) ==
    \A n \in Nodes(loc[t].mid.doc) :
        loc[t].mid.doc.dag[n].st = NodeState(loc[t].g, loc[t].wid, n)

\* C19: get_workflow(id) returns the applicable rules and the submittable
\* nodes of the reconciled workflow it read under the lock, and the status
\* and graph of that same workflow, also when other operations of the engine
\* on the workflow run between its release of the lock and its return.
C19_ListsOfLockedState ==
    \A t \in Threads :
        LET l == loc[t]
        IN  (/\ Finished(t, "get_workflow")
             /\ l.res.rv = "instance"
             /\ C19_NoCompletion(t))
            => /\ l.res.state = l.mid.doc.state
               /\ l.res.dag = l.mid.doc.dag
               /\ Range(l.res.applicable) = ApplicableSet(l.mid.doc, l.wid)
               /\ Range(l.res.submittable) = SnapshotSubmittable(l.mid.doc, l.mid.led)

C20_Step ==
    \A t \in Threads :
        (ScanStep(t) /\ \E w \in WIds : repo[w] # None /\ OrphanEntries(w) # {})
        => /\ pc'[t] = "lw_locked"
           /\ \A w \in task_list_workflows(ledger) :
                IF repo[w] = None \/ OrphanEntries(w) # {}
                THEN ~has_tasks(ledger', w)
                ELSE \A n \in TerminalEntries(w) : ledger'[w][n] = 0

C20_Listing ==
    \A t \in Threads :
        (pc[t] = "done" /\ loc[t].op = "list_workflows")
        => /\ loc[t].res.rv = "list"
           /\ loc[t].res.listing = db_list_workflows(repo)

\* C20: when the reconciliation of one workflow fails during the scan of
\* list_workflows, the scan still reconciles every other workflow that has
\* ledger entries, the ledger entries of the failing workflow are removed,
\* and list_workflows returns the listing of the repository.
C20_ScanSurvivesFailure == [](C20_Listing) /\ [][C20_Step]_vars

C21_Step ==
    \A t \in Threads :
        ScanStep(t)
        => \A w \in WIds :
             /\ (repo[w] # None /\ ~has_tasks(ledger, w))
                => /\ w \notin loc'[t].wrote
                   /\ repo'[w] = repo[w]
             /\ (repo[w] = None /\ has_tasks(ledger, w))
                => ~has_tasks(ledger', w)

\* C21: list_workflows reconciles only the workflows that have a ledger
\* entry: the stored workflow of every identifier without ledger entries is
\* not written, and for every identifier with ledger entries whose workflow
\* cannot be loaded all ledger entries are removed.
C21_ScanScope == [][C21_Step]_vars

\* thread t runs a request to create a workflow
CreateStep(t) ==
    /\ pc[t] = "idle"
    /\ pc'[t] = "done"
    /\ loc'[t].op = "create_workflow"

C22_Create ==
    \A t \in Threads :
        (CreateStep(t) /\ loc'[t].res.rv = "created")
        => LET w == loc'[t].wid
           IN  /\ repo[w] = None
               /\ w \notin dirs
               /\ repo'[w] # None
               /\ repo'[w].name = loc'[t].batch[1]
               /\ repo'[w].state = WORKFLOW_WAITING
               /\ repo'[w].applied = <<>>
               /\ loc'[t].res.inst = repo'[w]
               /\ dirs' = dirs \cup {w}
               /\ ledger' = ledger
               /\ ~has_tasks(ledger', w)
               /\ \A v \in WIds \ {w} : repo'[v] = repo[v]

\* the stored workflow is as create_workflow has made it
Fresh(doc) ==
    /\ doc # None
    /\ doc.applied = <<>>
    /\ doc.rules = TemplateRules
    /\ Nodes(doc) = {}

C22_Get ==
    \A t \in Threads :
        (/\ Finished(t, "get_workflow")
         /\ loc[t].res.rv = "instance"
         /\ Fresh(loc[t].pre.doc))
        => /\ loc[t].res.name = loc[t].pre.doc.name
           /\ loc[t].res.name \in Names
           /\ loc[t].res.state = WORKFLOW_WAITING
           /\ loc[t].res.applied = <<>>

\* C22: a successful create_workflow stores a new workflow under a fresh
\* identifier with the given name, status WAITING and an empty log of applied
\* rules, makes its work directory and no ledger entry; a get_workflow that
\* follows returns the same name and status.
C22_CreateEffects == [](C22_Get) /\ [][C22_Create]_vars

\* get_workflow returned the workflow that was just created
C22_Witness ==
    \E t \in Threads :
        /\ Finished(t, "get_workflow")
        /\ loc[t].res.rv = "instance"
        /\ Fresh(loc[t].pre.doc)
        /\ loc[t].wid \in dirs
        /\ loc[t].res.applicable # <<>>

C23_Step ==
    \A t \in Threads :
        CreateStep(t)
        => LET req == loc'[t].batch[2]
               def == loc'[t].batch[3]
           IN  (\/ req = "absent" /\ def = "absent"
                \/ req # "absent" /\ ~IsIntString(req))
               => /\ loc'[t].res.rv \in {"400", "500"}
                  /\ UNCHANGED <<repo, ledger, dirs, nextId>>

\* C23: a request to create a workflow whose template parameter has neither
\* a value nor a default, or has a value that is not of the declared type,
\* fails, and no stored workflow, no ledger entry and no work directory is
\* made.
C23_InvalidParameter == [][C23_Step]_vars

\* a request with a value that is no integer was turned down
C23_Witness ==
    \E t \in Threads :
        /\ pc[t] = "done"
        /\ loc[t].op = "create_workflow"
        /\ loc[t].batch[2] = "x"
        /\ loc[t].res.rv = "500"
        /\ repo[loc[t].wid] = None

\* thread t takes a step of get_workflow, apply_rules or submit_nodes
OpStep(t) ==
    /\ pc'[t] # pc[t]
    /\ pc'[t] # "idle"
    /\ loc'[t].op \in {"get_workflow", "apply_rules", "submit_nodes"}

C24_Step ==
    \A t \in Threads :
        (OpStep(t) /\ loc'[t].pre.doc = None)
        => /\ UNCHANGED <<repo, ledger, backend, dispatched, dirs>>
           /\ pc'[t] = "done"
              => /\ ~loc'[t].res.found
                 /\ loc'[t].res.rv = (IF loc'[t].op = "get_workflow"
                                       THEN "None" ELSE "False")

\* C24: get_workflow, apply_rules and submit_nodes on an identifier without a
\* stored workflow return the not-found value (None, False, False), leave
\* the repository and the ledger as they are and dispatch nothing.
C24_UnknownWorkflow == [][C24_Step]_vars

\* submit_nodes returned False for an identifier without a stored workflow,
\* and the ledger entry under that identifier is still there
C24_Witness ==
    /\ pc[Caller] = "done"
    /\ loc[Caller].op = "submit_nodes"
    /\ loc[Caller].batch # <<>>
    /\ loc[Caller].pre.doc = None
    /\ loc[Caller].res.rv = "False"
    /\ has_tasks(ledger, loc[Caller].wid)

\* C25: when apply_rules or submit_nodes turns down a batch for a workflow
\* that exists, the caller gets an outcome that differs from the one for a
\* workflow that does not exist: the value False is returned only for an
\* identifier without a stored workflow.
C25_TypedFailure ==
    \A t \in Threads :
        ((Finished(t, "apply_rules") \/ Finished(t, "submit_nodes"))
         /\ loc[t].res.rv = "False")
        => ~loc[t].res.found

C26_Inv == \A w \in WIds : repo[w] # None => w \in dirs

C26_Step ==
    \A w \in WIds :
        (w \in dirs /\ w \notin dirs')
        => /\ repo[w] = None
           /\ ~has_tasks(ledger, w)

\* C26: delete_workflow removes the work directory only after the stored
\* workflow and its ledger entries are gone, so at every moment, a crash
\* between two steps of a delete included, a stored workflow has its work
\* directory.
C26_RecordBeforeDirectory == [](C26_Inv) /\ [][C26_Step]_vars

\* the process died inside delete_workflow after the document and the ledger
\* entries were removed: the directory of the workflow is left behind
C26_Witness ==
    /\ pc[Caller] = "idle"
    /\ lock = NoThread
    /\ \E w \in WIds :
         /\ w < nextId
         /\ repo[w] = None
         /\ w \in dirs
         /\ \E n \in NodeIds : dispatched[w][n] > 0

\* the ledger has an entry for node n of the stored workflow w, and the node
\* has not finished
PendingEntry(rp, led, bk, w, n) ==
    /\ rp[w] # None
    /\ led[w][n] > 0
    /\ n \in Nodes(rp[w])
    /\ (IF rp[w].dag[n].sub THEN bk[w][n] ELSE DEFINED) \notin {SUCCESS, FAILED}

\* a ledger entry goes only in a reconciliation that finds its node finished
\* or missing, in delete_workflow, or in the loop of list_workflows over the
\* identifiers without a stored workflow
C27_Removal ==
    \A w \in WIds, n \in LedgerNodes :
        ledger'[w][n] < ledger[w][n]
        => \/ \E t \in Threads :
                /\ ReconcileStep(t, w) \/ ScanStep(t)
                /\ repo[w] # None
                /\ n \in TerminalEntries(w) \cup OrphanEntries(w)
           \/ \E t \in Threads :
                /\ pc[t] = "dw_tasks"
                /\ pc'[t] = "dw_dir"
                /\ loc[t].wid = w
           \/ \E t \in Threads : ScanStep(t) /\ repo[w] = None

\* the entry of a node that has not finished stays
C27_Remains ==
    \A w \in WIds, n \in NodeIds :
        (PendingEntry(repo, ledger, backend, w, n)
         /\ PendingEntry(repo', ledger, backend', w, n))
        => ledger'[w][n] >= ledger[w][n]

\* the stored status of a workflow with the entry of an unfinished node is
\* neither SUCCESS nor FAILED
C27_NonTerminal ==
    lock = NoThread
    => \A w \in WIds, n \in NodeIds :
         PendingEntry(repo, ledger, backend, w, n)
         => repo[w].state \notin {WORKFLOW_SUCCESS, WORKFLOW_FAILED}

C27_NotFinished ==
    \A w \in WIds, n \in NodeIds :
        PendingEntry(repo, ledger, backend, w, n)
        => /\ repo[w].state # WORKFLOW_SUCCESS
           /\ repo[w].state = WORKFLOW_FAILED
              => \E m \in Nodes(repo[w]) \ {n} :
                    /\ repo[w].dag[m].sub
                    /\ backend[w][m] = FAILED

C28_Agree ==
    lock = NoThread
    => \A w \in WIds, n \in LedgerNodes :
         ledger[w][n] > 0
         => /\ repo[w] # None
            /\ n \in Nodes(repo[w])
            /\ repo[w].dag[n].sub

\* C28: whenever the lock is free, every ledger entry (w, n) has a stored
\* workflow w whose stored graph records node n as submitted; a workflow
\* that delete_workflow removed has no ledger entry.
C28_LedgerAgrees ==
    /\ C28_Agree
    /\ \A w \in WIds : (lock = NoThread /\ Deleted(w)) => ~has_tasks(ledger, w)

C29_Step ==
    probe'.op = "create"
    => LET w == probe'.wid
       IN  /\ \A v \in WIds \ {w} : repo'[v] = repo[v]
           /\ IF repo[w] # None
              THEN /\ probe'.raised
                   /\ probe'.rv = None
                   /\ repo'[w] = repo[w]
              ELSE /\ ~probe'.raised
                   /\ probe'.rv = probe'.doc
                   /\ repo'[w] = probe'.doc

\* C29: create_workflow of the repository with an identifier that has a
\* document raises DuplicateKeyError and leaves that document as it is; with
\* a new identifier it stores the document, so the collection has one
\* document per identifier.
C29_DuplicateKey == [][C29_Step]_vars

\* a create with the identifier of a stored document was turned down and the
\* document does not have the name that was given
C29_Witness ==
    /\ probe.op = "create"
    /\ probe.raised
    /\ repo[probe.wid] # None
    /\ repo[probe.wid].name # probe.doc.name

C30_Step ==
    probe'.op = "update"
    => LET w == probe'.wid
       IN  /\ \A v \in WIds \ {w} : repo'[v] = repo[v]
           /\ IF repo[w] # None
              THEN /\ probe'.rv = probe'.doc
                   /\ repo'[w] = probe'.doc
                   /\ repo'[w].name = probe'.doc.name
                   /\ repo'[w].state = probe'.doc.state
                   /\ repo'[w].dag = probe'.doc.dag
              ELSE /\ probe'.rv = None
                   /\ repo' = repo

\* C30: update_workflow of the repository on an identifier with a document
\* replaces name, state and graph of that document only and returns the
\* updated instance; on an identifier without a document it returns None and
\* stores nothing.
C30_Update == [][C30_Step]_vars

\* an update gave a stored workflow another name, state and graph while the
\* other identifier has no document
C30_Witness ==
    /\ probe.op = "update"
    /\ probe.rv # None
    /\ repo[probe.wid] = probe.doc
    /\ probe.doc.name = "U"
    /\ probe.doc.state = WORKFLOW_RUNNING
    /\ probe.doc.applied = <<"r1">>
    /\ \E v \in WIds : repo[v] = None

\* every pair but (w, n) has the entries it had
OtherPairsKept(w, n) ==
    \A v \in WIds, m \in LedgerNodes :
        (v # w \/ m # n) => ledger'[v][m] = ledger[v][m]

C31_Step ==
    LET w == probe'.wid
        n == probe'.node
    IN  /\ probe'.op = "create_task"
           => /\ ledger'[w][n] = ledger[w][n] + 1
              /\ OtherPairsKept(w, n)
        /\ probe'.op = "delete_task"
           => /\ ledger'[w][n] = 0
              /\ n \notin Range(list_tasks_list(ledger', w))
              /\ OtherPairsKept(w, n)
        /\ probe'.op = "delete_tasks"
           => /\ ~has_tasks(ledger', w)
              /\ list_tasks_list(ledger', w) = <<>>
              /\ \A v \in WIds \ {w} : ledger'[v] = ledger[v]

\* C31: create_task of a pair that is in the ledger succeeds and adds a
\* document; delete_task(w, n) leaves no document of (w, n), however many
\* there were, and every other pair as it was; delete_tasks(w) leaves no
\* document of w and the other workflows as they were.
C31_LedgerOperations == [][C31_Step]_vars

\* delete_task removed a pair that was stored twice while another pair stays
C31_Witness ==
    /\ probe.op = "delete_task"
    /\ probe.had = 2
    /\ ledger[probe.wid][probe.node] = 0
    /\ \E v \in WIds, m \in NodeIds : ledger[v][m] > 0

NoDuplicates(s) == \A i, j \in 1..Len(s) : s[i] = s[j] => i = j

\* C32: after any sequence of ledger operations has_tasks(w) is true exactly
\* when list_tasks(w) is not empty and exactly when w is in list_workflows(),
\* and list_workflows() has each such workflow once.
C32_QueriesAgree ==
    /\ \A w \in WIds :
         /\ has_tasks(ledger, w) <=> list_tasks_list(ledger, w) # <<>>
         /\ has_tasks(ledger, w) <=> w \in Range(list_workflows_list(ledger))
         /\ Range(list_tasks_list(ledger, w)) = list_tasks(ledger, w)
         /\ Len(list_tasks_list(ledger, w)) >= Cardinality(list_tasks(ledger, w))
    /\ NoDuplicates(list_workflows_list(ledger))
    /\ Range(list_workflows_list(ledger)) = task_list_workflows(ledger)

\* one workflow has a pair twice and two pairs in all, another has none
C32_Witness ==
    \E w, v \in WIds :
        /\ Len(list_tasks_list(ledger, w)) = 3
        /\ ~has_tasks(ledger, v)
        /\ list_workflows_list(ledger) = <<w>>

\* a node of a stored workflow whose task runs at the backend has a ledger
\* entry
C33_Inv ==
    \A w \in WIds, n \in NodeIds :
        (repo[w] # None /\ backend[w][n] = RUNNING) => ledger[w][n] > 0

\* a node is handed to the backend only when its ledger entry is there
C33_Step ==
    \A w \in WIds, n \in NodeIds :
        dispatched'[w][n] > dispatched[w][n] => ledger[w][n] > 0

\* C33: submit_nodes inserts the ledger entry of a node before it hands the
\* node to the backend, so in no reachable state, a failing dispatch or a
\* failing insert included, a dispatched node is without a ledger entry.
C33_EntryBeforeDispatch == [](C33_Inv) /\ [][C33_Step]_vars

\* the client is in its loop with nothing to apply and nothing to submit
\* only while the status it has read is RUNNING
C34_NotStuck ==
    (/\ ClientLoops
     /\ probe.applicable = <<>>
     /\ probe.submittable = <<>>)
    => probe.status = WORKFLOW_RUNNING

\* the loop of the client has ended
ClientEnded ==
    /\ probe.phase = "decide"
    /\ probe.status \in {WORKFLOW_FAILED, WORKFLOW_SUCCESS}

C35_RunningHasEntry ==
    lock = NoThread
    => \A w \in WIds :
         (repo[w] # None /\ repo[w].state = WORKFLOW_RUNNING)
         => has_tasks(ledger, w)

\* a workflow is stored as RUNNING with the ledger entry of its running node
\* A, after the lock was given back
C35_Witness ==
    /\ lock = NoThread
    /\ \E w \in WIds :
         /\ repo[w] # None
         /\ repo[w].state = WORKFLOW_RUNNING
         /\ list_tasks(ledger, w) = {"A"}
         /\ backend[w]["A"] = RUNNING

C36_Step ==
    \A w \in WIds :
        (/\ repo[w] # None
         /\ repo'[w] # None
         /\ repo[w].state \in {WORKFLOW_SUCCESS, WORKFLOW_FAILED})
        => repo'[w].state = repo[w].state

\* C36: a stored status SUCCESS or FAILED is never replaced by another
\* status, whatever get_workflow, list_workflows, apply_rules and
\* submit_nodes calls and task completions follow, until the workflow is
\* deleted.
C36_TerminalStays == [][C36_Step]_vars

\* the workflow is stored as FAILED, and since then the other node was
\* submitted, has finished with SUCCESS and its ledger entry was removed
C36_Witness ==
    \E w \in WIds :
        /\ repo[w] # None
        /\ repo[w].state = WORKFLOW_FAILED
        /\ repo[w].dag["A"].st = FAILED
        /\ repo[w].dag["B"].st = SUCCESS
        /\ ~has_tasks(ledger, w)

\* every workflow but w has the document, the ledger entries and the work
\* directory it had
OthersKept(w) ==
    \A v \in WIds \ {w} :
        /\ repo'[v] = repo[v]
        /\ ledger'[v] = ledger[v]
        /\ v \in dirs' <=> v \in dirs

C37_Step ==
    \A t \in Threads :
        (/\ pc'[t] # pc[t]
         /\ pc'[t] # "idle"
         /\ loc'[t].op \in {"get_workflow", "apply_rules", "submit_nodes",
                            "delete_workflow", "create_workflow"})
        => OthersKept(loc'[t].wid)

\* C37: every step of get_workflow, apply_rules, submit_nodes and
\* delete_workflow for workflow w, and of a create_workflow that runs beside
\* them without the lock, leaves the document, the ledger entries and the
\* work directory of every other workflow as they were.
C37_OtherWorkflows == [][C37_Step]_vars

\* delete_workflow has removed the second workflow with its ledger entry
\* while the other thread is inside a request; the first workflow has its
\* document, its ledger entry and its directory
C37_Witness ==
    /\ \E t \in Threads :
         /\ pc[t] = "done"
         /\ loc[t].op = "delete_workflow"
         /\ loc[t].res.rv = "True"
         /\ loc[t].wid # Bystander
         /\ loc[t].pre.led["A"] > 0
    /\ \E t \in Threads : pc[t] \notin {"idle", "done"}
    /\ repo[Bystander] = BystanderDoc
    /\ ledger[Bystander]["A"] = 1
    /\ Bystander \in dirs

\* delete_workflow has removed workflow w and has returned
Removed(w) ==
    /\ Deleted(w)
    /\ \A t \in Threads :
         (loc[t].op = "delete_workflow" /\ loc[t].wid = w)
         => pc[t] \notin {"dw_tasks", "dw_dir"}

C38_Inv == \A w \in WIds : Removed(w) => ~has_tasks(ledger, w)

C38_Step ==
    \A w \in WIds :
        Deleted(w)
        => /\ repo'[w] = None
           /\ \A n \in LedgerNodes : ledger'[w][n] <= ledger[w][n]

\* C38: once delete_workflow(id) has returned True, no get_workflow,
\* apply_rules, submit_nodes or list_workflows that ran beside it or starts
\* later stores a workflow or a ledger entry under id again.
C38_StaysDeleted == [](C38_Inv) /\ [][C38_Step]_vars

\* delete_workflow has returned True while a get_workflow for the same
\* identifier, which took the lock first, has not returned yet
C38_Witness ==
    \E t, u \in Threads :
        /\ pc[t] = "done"
        /\ loc[t].op = "delete_workflow"
        /\ loc[t].res.rv = "True"
        /\ pc[u] = "gw_unlocked"
        /\ loc[u].wid = loc[t].wid
        /\ loc[t].pre.led["A"] > 0

\* the nodes of the stored workflow w that submit_nodes would accept now
SubmittableNow(w) ==
    IF repo[w] = None THEN {}
    ELSE Range(submittable_nodes(fromJSON(repo[w]), w, ledger,
                                 CHOOSE s \in Orders(NodeIds) : TRUE))

\* submit_nodes with nodes that get_workflow listed returns True
C39_Accepted ==
    (pc[Caller] = "done" /\ loc[Caller].op = "submit_nodes")
    => loc[Caller].res.rv = "True"

\* a task that finishes takes no node out of the submittable ones
C39_Grows ==
    \A w \in WIds :
        (backend' # backend /\ repo' = repo /\ ledger' = ledger)
        => SubmittableNow(w) \subseteq SubmittableNow(w)'

\* C39: when get_workflow(id) has returned the submittable nodes L and no
\* other operation on id has run since, submit_nodes(id, S) returns True for
\* every non-empty S without repetition taken from L, also when tasks that
\* were dispatched before have finished in the meantime: a finished task
\* takes nothing out of the submittable nodes.
C39_SubmitListed == [](C39_Accepted) /\ [][C39_Grows]_vars

\* get_workflow listed two nodes while a task was running; that task has
\* finished since, and submit_nodes with one of the two nodes returned True
C39_Witness ==
    /\ pc[Caller] = "done"
    /\ loc[Caller].op = "submit_nodes"
    /\ loc[Caller].res.rv = "True"
    /\ Len(loc[Caller].batch) = 1
    /\ probe.status = WORKFLOW_RUNNING
    /\ probe.submittable # <<>>
    /\ \E n \in NodeIds :
         /\ backend[probe.wid][n] \in {SUCCESS, FAILED}
         /\ loc[Caller].pre.led[n] > 0
         /\ loc[Caller].mid.led[n] = 0

====
